---- MODULE Spec2Model ----
(***************************************************************************)
(* drtrips-hotel-mcp: the search_hotels tool handler (src/src/index.ts)    *)
(* and the HotelSearchAPI client (src/src/services/hotel-api.ts).          *)
(*                                                                         *)
(* One HotelSearchAPI instance (hotelAPI) is shared by every tool call.    *)
(* Each tool call runs the handler; the handler runs searchHotels, which   *)
(* is cut into one step per await: the destination call, the listing call, *)
(* the fan-out of detail calls, the fan-out of formatHotelDataEnhanced     *)
(* (one photo call each), and the handler's resumption.  Between two       *)
(* awaits the code runs to completion (single-threaded event loop), so     *)
(* each action below is the code from one await to the next.               *)
(***************************************************************************)
EXTENDS Integers, Sequences, FiniteSets, TLC

VARIABLES
    env,                  \* which environment the run is in (fixed by Init)
    requestCount,         \* HotelSearchAPI.requestCount (one instance, shared)
    pc,                   \* per call: where the handler / searchHotels is suspended
    args,                 \* per call: the tool arguments of the request
    hotelIdsToProcess,    \* per call: hotelIds.slice(0, MAX_HOTELS_TO_PROCESS)
    hotelDetailsResults,  \* per call: one slot per detail promise
    validHotelDetails,    \* per call: the [hotelId, details] pairs kept
    formattedResults,     \* per call: one slot per format promise
    hotels,               \* per call: what searchHotels returned (or that it rejected)
    response,             \* per call: the tool response the handler returned
    answered,             \* history: the destination and listing answers the call got
    settled,              \* history: per candidate, how its detail fetch ended
    listed,               \* history: hotelIds.length of the call's listing
    issued,               \* history: upstream calls issued by the call, per endpoint
    overlapped,           \* history: another search ran while the call's search ran
    normalized,           \* history: per kept hotel, how its normalization ended
    listingParams,        \* history: the params of the call's listing request
    hotelDetails,         \* formatHotelDataEnhanced on its own: the payload it is given
    paramsGiven,         \* formatHotelDataEnhanced on its own: the searchParams it is given
    photoAnswer,          \* formatHotelDataEnhanced on its own: the photo endpoint's answer
    formattedHotel        \* formatHotelDataEnhanced on its own: what it returned

searchVars == <<env, requestCount, pc, args, hotelIdsToProcess, hotelDetailsResults,
                validHotelDetails, formattedResults, hotels, response, answered,
                settled, listed, issued, overlapped, normalized, listingParams>>

formatVars == <<hotelDetails, paramsGiven, photoAnswer, formattedHotel>>

vars == <<searchVars, formatVars>>

(***************************************************************************)
(* Bounds of the model.                                                    *)
(***************************************************************************)
\* most hotels a listing returns under Spec
MaxListed == 4
\* largest max_results requested under Spec
MaxK == 2
\* most hotels a listing returns under SpecCap (beyond the ceiling of 10)
MaxListedCap == 11
\* most hotels a listing returns under SpecConc
MaxListedConc == 2
\* latest date argument under SpecArgs, in days after the latest clock's day
MaxAhead == 1
\* most entries of a list of distinct photos under SpecFormat
MaxPhotos == 6
\* most hotels a listing returns under SpecRef
MaxListedRef == 5
\* most hotels a listing returns under SpecFixed
MaxListedFixed == 2
\* most hotels a listing returns under SpecLive
MaxListedLive == 1
\* most entries of a list of reviews with content under SpecFormat
MaxReviews == 4
\* largest stay count of a price breakdown under SpecFormat
MaxStays == 2
\* most children of a request under SpecFormat
MaxChildren == 2

(***************************************************************************)
(* Program constants.                                                      *)
(***************************************************************************)
\* Math.min(10, hotelIds.length)
MAX_CANDIDATES == 10
\* validHotelDetails.length >= maxResults + 2
BUFFER == 2
\* searchParams.max_results || 3
DEFAULT_MAX_RESULTS == 3
\* inputSchema.max_results.maximum
MAX_RESULTS_MAXIMUM == 10
\* if (adults < 1 || adults > 30)
ADULTS_MINIMUM == 1
ADULTS_MAXIMUM == 30
\* inputSchema.rooms.maximum
ROOMS_MAXIMUM == 8
\* inputSchema.children.items.description: "Age of child (0-17)"
CHILD_AGE_MAXIMUM == 17

Calls == {1, 2}

Min(a, b) == IF a <= b THEN a ELSE b

Range(s) == {s[i] : i \in DOMAIN s}

(***************************************************************************)
(* Values.  A JS object is a record; `'error' in x` is "error" \in DOMAIN. *)
(***************************************************************************)
Pending == [pending |-> TRUE]
NoHotels == [kind |-> "none", list |-> <<>>]
NoResponse == [kind |-> "none"]
NoIssued == [dest |-> 0, list |-> 0, detail |-> 0, photo |-> 0]

Total(i) == i.dest + i.list + i.detail + i.photo

\* messages: text plus the HTTP status interpolated into it ("" when none)
Msg(text, status) == [text |-> text, status |-> status]
TypeErrorMsg == Msg("TypeError", "")

(***************************************************************************)
(* Upstream answers.  axios.get resolves for a 2xx status and throws an    *)
(* AxiosError otherwise (with error.response for an HTTP error, without    *)
(* for a network failure).                                                 *)
(***************************************************************************)
Http(status, body) == [kind |-> "http", status |-> status, body |-> body]
NetworkError == [kind |-> "network", status |-> "undefined", body |-> [null |-> TRUE]]
NullBody == [null |-> TRUE]

ErrorStatuses == {"401", "500"}

AxiosResolves(resp) == resp.kind = "http" /\ resp.status \in {"200", "204"}

\* `API request failed with status ${error.response?.status}`
AxiosErrorMessage_NoStatus(resp) == Msg("API request failed", "")
AxiosErrorMessage(resp) == Msg("API request failed with status", resp.status)

(***************************************************************************)
(* Response bodies (response.data).  `x?.f` on a null body is undefined.   *)
(***************************************************************************)
Absent == [present |-> FALSE, isArray |-> FALSE, items |-> <<>>]
Array(items) == [present |-> TRUE, isArray |-> TRUE, items |-> items]
\* a truthy value that is no array (an object)
NonArray == [present |-> TRUE, isArray |-> FALSE, items |-> <<>>]
NullItem == [null |-> TRUE]

Body(status, data) == [null |-> FALSE, status |-> status, data |-> data]

BodyStatus(body) == ~body.null /\ body.status
BodyData(body) == IF body.null THEN Absent ELSE body.data

Destination(id, type) == [null |-> FALSE, dest_id |-> id, dest_type |-> type]
Hotel(id) == [null |-> FALSE, hasId |-> TRUE, hotel_id |-> id]
\* a hotel entry whose hotel_id is null or undefined
HotelWithoutId == [null |-> FALSE, hasId |-> FALSE, hotel_id |-> 0]
\* a photo entry of the photo endpoint or of data.photos
Photo(original, max, u1024, u640) ==
    [null |-> FALSE, object |-> TRUE, url_original |-> original, url_max |-> max,
     url_max750 |-> "", url_1024x768 |-> u1024, url_640x400 |-> u640]
\* a photo entry of a room, which may carry url_max750
RoomPhoto(original, max, max750) ==
    [Photo(original, max, "", "") EXCEPT !.url_max750 = max750]
\* an entry that is no object (typeof entry !== 'object'), such as a string
NonObject == [null |-> FALSE, object |-> FALSE]
\* an entry of data.property_highlight_strip
Highlight(image, name) == [image |-> image, name |-> name]
\* an entry of data.rooms
Room(photos) == [photos |-> photos]

\* a detail payload: error (at most one message), status, data, and whether
\* data's fields have the types formatHotelDataEnhanced dereferences
Details(error, status, data, wellFormed, mainPhoto) ==
    [null |-> FALSE, error |-> error, status |-> status, data |-> data,
     wellFormed |-> wellFormed, main_photo_url |-> mainPhoto,
     photos |-> Absent, property_highlight_strip |-> <<>>, rooms |-> <<>>,
     facilities_block |-> <<>>]

\* a payload with status and data, by the fields of data that photos and
\* facilities are read from; facilities_block is a sequence of categories,
\* each the names of its facilities ("" for a facility without a name)
DetailsOf(mainPhoto, photos, highlights, rooms, facilitiesBlock) ==
    [Details(<<>>, TRUE, TRUE, TRUE, mainPhoto) EXCEPT
        !.photos = photos, !.property_highlight_strip = highlights,
        !.rooms = rooms, !.facilities_block = facilitiesBlock]

DetailValid == Details(<<>>, TRUE, TRUE, TRUE, "main")
DetailBadShape == Details(<<>>, TRUE, TRUE, FALSE, "main")
DetailNoData == Details(<<>>, TRUE, FALSE, FALSE, "")
DetailNoStatus == Details(<<>>, FALSE, TRUE, TRUE, "main")

(***************************************************************************)
(* HotelSearchAPI: the request counter.                                    *)
(***************************************************************************)
resetRequestCount_Keep(count) == count
resetRequestCount(count) == 0

\* this.requestCount++, n times in one synchronous run
TrackRequests(count, n) == count + n

(***************************************************************************)
(* HotelSearchAPI.searchDestinationsByQuery, from the response on.         *)
(***************************************************************************)
SearchDestinationsByQuery_NoIndicator(resp) ==
    IF AxiosResolves(resp)
    THEN IF resp.status = "200" /\ BodyData(resp.body).present
         THEN [destinations |-> resp.body.data]
         ELSE [error |-> Msg("No destinations found", "")]
    ELSE [error |-> AxiosErrorMessage(resp)]
SearchDestinationsByQuery(resp) ==
    IF AxiosResolves(resp)
    THEN IF resp.status = "200" /\ BodyStatus(resp.body) /\ BodyData(resp.body).present
         THEN [destinations |-> resp.body.data]
         ELSE [error |-> Msg("No destinations found", "")]
    ELSE [error |-> AxiosErrorMessage(resp)]

(***************************************************************************)
(* HotelSearchAPI.searchHotelsByDestination, from the response on.         *)
(***************************************************************************)
\* .filter((id) => id !== undefined && id !== null) after .map(hotel_id)
RECURSIVE HotelIdsOf(_)
HotelIdsOf(items) ==
    IF items = <<>> THEN <<>>
    ELSE IF Head(items).hasId
         THEN <<Head(items).hotel_id>> \o HotelIdsOf(Tail(items))
         ELSE HotelIdsOf(Tail(items))

SearchHotelsByDestination(resp) ==
    IF AxiosResolves(resp)
    THEN IF resp.status = "200" /\ BodyStatus(resp.body) /\ BodyData(resp.body).present
         THEN LET hotelsData == resp.body.data.hotels IN
              IF ~hotelsData.present THEN [hotel_ids |-> <<>>]
              ELSE IF ~hotelsData.isArray \/ \E h \in Range(hotelsData.items) : h.null
                   THEN [error |-> TypeErrorMsg]
                   ELSE [hotel_ids |-> HotelIdsOf(hotelsData.items)]
         ELSE [error |-> Msg("No hotels found", "")]
    ELSE [error |-> AxiosErrorMessage(resp)]

\* the key of a child's age: `children_age_${index + 1}`, by its number
ChildAgeKey_FromZero(index) == index
ChildAgeKey(index) == index + 1

\* children.forEach((age, index) => { params[key] = String(age) })
RECURSIVE ChildAges(_, _, _)
ChildAges(params, children, index) ==
    IF index >= Len(children) THEN params
    ELSE ChildAges((ChildAgeKey(index) :> ToString(children[index + 1])) @@ params,
                   children, index + 1)

\* the params of the listing request that depend on the party: children_qty
\* and the children's ages, keyed by the number in the key
ListerParams(children) ==
    [children_qty |-> ToString(Len(children)),
     children_age |-> ChildAges(<<>>, children, 0)]

\* no listing request has been made
NoParams == [children_qty |-> "", children_age |-> <<>>]

(***************************************************************************)
(* HotelSearchAPI.getHotelDetailsEnhanced, from the response on.           *)
(***************************************************************************)
ErrorDetails(message) == Details(<<message>>, FALSE, FALSE, FALSE, "")

GetHotelDetailsEnhanced(resp) ==
    IF AxiosResolves(resp)
    THEN IF resp.status = "200"
         THEN resp.body
         ELSE ErrorDetails(Msg("API request failed with status", resp.status))
    ELSE ErrorDetails(AxiosErrorMessage(resp))

(***************************************************************************)
(* What a piece of code ends with: it returns a list, throws, or goes on   *)
(* with a value.                                                           *)
(***************************************************************************)
Return(list) == [tag |-> "return", list |-> list]
Throw(error) == [tag |-> "throw", error |-> error]
Go(val) == [tag |-> "go", val |-> val]

(***************************************************************************)
(* HotelSearchAPI.getHotelPhotos, from the response on.                    *)
(***************************************************************************)
FirstN(s, n) == SubSeq(s, 1, Min(n, Len(s)))

\* urlOriginal || urlMax || url1024 || url640
PhotoUrl(photo) ==
    IF photo.url_original # "" THEN photo.url_original
    ELSE IF photo.url_max # "" THEN photo.url_max
    ELSE IF photo.url_1024x768 # "" THEN photo.url_1024x768
    ELSE photo.url_640x400

\* the loop over the entries: entries that are no objects and entries without
\* a usable URL are skipped
RECURSIVE PhotoUrls(_)
PhotoUrls(photos) ==
    IF photos = <<>> THEN <<>>
    ELSE IF Head(photos).object /\ PhotoUrl(Head(photos)) # ""
         THEN <<PhotoUrl(Head(photos))>> \o PhotoUrls(Tail(photos))
         ELSE PhotoUrls(Tail(photos))

\* photos.slice(0, 5)
EndpointSlice(items) == FirstN(items, 5)

\* the body of the try: axios.get throws for an error status or a network
\* failure, photos.slice throws when data is no array, photo.url_original
\* throws on a null entry (typeof null === 'object')
GetHotelPhotosTry(resp) ==
    IF ~AxiosResolves(resp) THEN Throw(AxiosErrorMessage(resp))
    ELSE IF resp.status = "200" /\ BodyData(resp.body).present
         THEN LET photos == resp.body.data IN
              IF ~photos.isArray \/ \E p \in Range(EndpointSlice(photos.items)) : p.null
              THEN Throw(TypeErrorMsg)
              ELSE Go(PhotoUrls(EndpointSlice(photos.items)))
         ELSE Go(<<>>)

\* catch (error) { return [] }
GetHotelPhotosCatch_Rethrow(step) == step
GetHotelPhotosCatch(step) == IF step.tag = "throw" THEN Go(<<>>) ELSE step

GetHotelPhotos(resp) == GetHotelPhotosCatch(GetHotelPhotosTry(resp))

(***************************************************************************)
(* HotelSearchAPI.formatHotelDataEnhanced.                                 *)
(***************************************************************************)
\* if (!hotelDetails?.status || !hotelDetails?.data): no photo call is made
InvalidHotelDetails(details) ==
    IF details.null THEN TRUE ELSE ~(details.status /\ details.data)

\* if (photoUrl && !photosFromDetails.includes(photoUrl)) push
PushNew(acc, url) ==
    IF url # "" /\ url \notin Range(acc) THEN Append(acc, url) ELSE acc

RECURSIVE PushAllNew(_, _)
PushAllNew(acc, urls) ==
    IF urls = <<>> THEN acc
    ELSE PushAllNew(PushNew(acc, Head(urls)), Tail(urls))

\* data.photos.slice(0, 4)
EmbeddedSlice_Five(items) == FirstN(items, 5)
EmbeddedSlice(items) == FirstN(items, 4)

\* the entries of data.photos the fallback reads
EmbeddedEntries(details) ==
    IF details.photos.present /\ details.photos.isArray
    THEN EmbeddedSlice(details.photos.items)
    ELSE <<>>

\* the loop over property_highlight_strip: a new image is pushed, and the loop
\* breaks once five photos are held
RECURSIVE PushHighlights(_, _)
PushHighlights(acc, highlights) ==
    IF highlights = <<>> THEN acc
    ELSE LET image == Head(highlights).image IN
         IF image # "" /\ image \notin Range(acc)
         THEN IF Len(acc) + 1 >= 5
              THEN Append(acc, image)
              ELSE PushHighlights(Append(acc, image), Tail(highlights))
         ELSE PushHighlights(acc, Tail(highlights))

\* url_original || url_max || url_max750 || url_1024x768 || url_640x400
RoomPhotoUrl(photo) ==
    IF photo.url_original # "" THEN photo.url_original
    ELSE IF photo.url_max # "" THEN photo.url_max
    ELSE IF photo.url_max750 # "" THEN photo.url_max750
    ELSE IF photo.url_1024x768 # "" THEN photo.url_1024x768
    ELSE photo.url_640x400

\* the loop over roomPhotos.slice(0, 3): every usable URL is pushed, and the
\* loop breaks once three photos are held
RECURSIVE PushRoomPhotos(_, _)
PushRoomPhotos(acc, photos) ==
    IF photos = <<>> THEN acc
    ELSE LET url == IF Head(photos).object THEN RoomPhotoUrl(Head(photos)) ELSE ""
             pushed == IF url # "" THEN Append(acc, url) ELSE acc
         IN
         IF Len(pushed) >= 3 THEN pushed
         ELSE PushRoomPhotos(pushed, Tail(photos))

\* the loop over data.rooms, which breaks once three photos are held
RECURSIVE PushRooms(_, _)
PushRooms(acc, rooms) ==
    IF rooms = <<>> THEN acc
    ELSE LET pushed == PushRoomPhotos(acc, FirstN(Head(rooms).photos, 3)) IN
         IF Len(pushed) >= 3 THEN pushed
         ELSE PushRooms(pushed, Tail(rooms))

\* photos taken from the detail payload when the photo endpoint gave none:
\* main_photo_url, data.photos, property_highlight_strip, then the rooms
PhotosFromDetails(details) ==
    LET main == PushNew(<<>>, details.main_photo_url)
        embedded == PushAllNew(main, PhotoUrls(EmbeddedEntries(details)))
        highlighted == PushHighlights(embedded, details.property_highlight_strip)
        all == IF Len(highlighted) = 0
               THEN PushRooms(highlighted, details.rooms)
               ELSE highlighted
    IN FirstN(all, 5)

\* photo.url_original on a null entry of data.photos throws
FallbackThrows(details) == \E p \in Range(EmbeddedEntries(details)) : p.null

\* the names of an array of named things; entries without a name are skipped
RECURSIVE Names(_)
Names(names) ==
    IF names = <<>> THEN <<>>
    ELSE IF Head(names) # ""
         THEN <<Head(names)>> \o Names(Tail(names))
         ELSE Names(Tail(names))

RECURSIVE BlockNames(_)
BlockNames(block) ==
    IF block = <<>> THEN <<>>
    ELSE Names(Head(block)) \o BlockNames(Tail(block))

\* facilitiesResult: the highlights' names, then the facilities of every
\* category of facilities_block
FacilitiesResult(details) ==
    Names([i \in 1..Len(details.property_highlight_strip) |->
             details.property_highlight_strip[i].name])
    \o BlockNames(details.facilities_block)

\* Array.from(new Set(facilitiesResult)): first occurrences, in order
ArrayFromSet_Keep(s) == s
ArrayFromSet(s) == PushAllNew(<<>>, s)

\* data[field]: a field the payload lacks reads as undefined, for which the
\* code's `|| default` gives the default
Get(data, field, default) == IF field \in DOMAIN data THEN data[field] ELSE default

\* a || b on strings ("" stands for an absent or empty string)
Or(a, b) == IF a # "" THEN a ELSE b

\* String(value) of a number
String(value) == ToString(value)

(***************************************************************************)
(* formatHotelDataEnhanced: the rooms.                                     *)
(***************************************************************************)
\* gross_amount and gross_amount_per_night of product_price_breakdown
Amount(rounded, unrounded, currency) ==
    [amount_rounded |-> rounded, amount_unrounded |-> unrounded, currency |-> currency]
NoAmount == Amount("", "", "")

\* nr_stays of product_price_breakdown
Stays(n) == [present |-> TRUE, value |-> n]
NoStays == [present |-> FALSE, value |-> 0]

PriceBreakdown(gross, perNight, nrStays) ==
    [gross_amount |-> gross, gross_amount_per_night |-> perNight, nr_stays |-> nrStays]
\* data.product_price_breakdown || {}
NoPriceBreakdown == PriceBreakdown(NoAmount, NoAmount, NoStays)

\* priceBreakdown.nr_stays || 1
TotalDays_Raw(nrStays) == nrStays.value
TotalDays(nrStays) == IF nrStays.present /\ nrStays.value # 0 THEN nrStays.value ELSE 1

\* roomInfo.description || `Room ${roomId}`
RoomName(roomInfo, roomId) ==
    IF Get(roomInfo, "description", "") # ""
    THEN [text |-> roomInfo.description, id |-> 0]
    ELSE [text |-> "Room", id |-> roomId]

\* roomData, without the room's own photos, facilities and highlights
RoomData(roomInfo, roomId, priceBreakdown) ==
    [name |-> RoomName(roomInfo, roomId),
     price |-> Or(priceBreakdown.gross_amount.amount_rounded,
                  priceBreakdown.gross_amount.amount_unrounded),
     price_per_night |-> Or(priceBreakdown.gross_amount_per_night.amount_rounded,
                            priceBreakdown.gross_amount_per_night.amount_unrounded),
     currency |-> Or(priceBreakdown.gross_amount.currency, "USD"),
     total_days |-> TotalDays(priceBreakdown.nr_stays)]

\* the loop over data.rooms
RoomsResult(data) ==
    [roomId \in 1..Len(data.rooms) |->
        RoomData(data.rooms[roomId], roomId,
                 Get(data, "product_price_breakdown", NoPriceBreakdown))]

(***************************************************************************)
(* formatHotelDataEnhanced: the rating scores.                             *)
(***************************************************************************)
\* breakfast_review_score and wifi_review_score: an object with a rating, or
\* a truthy value that is no object; rating 0 stands for no rating
ScoreBlock(rating) == [present |-> TRUE, object |-> TRUE, rating |-> rating]
NoScoreBlock == [present |-> FALSE, object |-> FALSE, rating |-> 0]
ScoreNumber == [present |-> TRUE, object |-> FALSE, rating |-> 0]

\* data.x_review_score || {}, then `if (x && typeof x === 'object')`
ScoreBlockIsObject(block) == IF block.present THEN block.object ELSE TRUE

RatingScore(category, score) == [category |-> category, score |-> score]

\* ratingScores; a review_score or rating of 0 stands for none
RatingScores(data) ==
    LET breakfastReview == Get(data, "breakfast_review_score", NoScoreBlock)
        wifiReview == Get(data, "wifi_review_score", NoScoreBlock)
        overallScore == IF Get(data, "review_score", 0) # 0 THEN data.review_score
                        ELSE Get(data, "rating", 0)
    IN
    (IF ScoreBlockIsObject(breakfastReview)
     THEN <<RatingScore("breakfast", breakfastReview.rating)>> ELSE <<>>)
    \o (IF ScoreBlockIsObject(wifiReview)
        THEN <<RatingScore("wifi", wifiReview.rating)>> ELSE <<>>)
    \o (IF overallScore # 0 THEN <<RatingScore("overall", overallScore)>> ELSE <<>>)

(***************************************************************************)
(* HotelSearchAPI.extractFeaturedReviews.                                  *)
(***************************************************************************)
\* an entry of guest_reviews, review_list or reviews, by the fields its
\* content is read from
Review(author, content, text, positive) ==
    [null |-> FALSE, object |-> TRUE, author |-> author, content |-> content,
     text |-> text, positive |-> positive]

FeaturedReview(author, content) == [author |-> author, content |-> content]

\* reviewData of an entry of guest_reviews
GuestReviewData(review) ==
    FeaturedReview(Or(review.author, "Anonymous"), Or(review.content, review.positive))

\* reviewData of an entry of review_list
ListReviewData(review) ==
    FeaturedReview(Or(review.author, "Anonymous"), Or(review.text, review.positive))

\* one of the two loops over reviews: an entry that is no object is skipped,
\* reviewData without content is not pushed, and review.author on a null
\* entry throws
RECURSIVE PushReviews(_, _, _)
PushReviews(acc, reviews, guest) ==
    IF reviews = <<>> THEN [thrown |-> FALSE, reviews |-> acc]
    ELSE LET review == Head(reviews) IN
         IF review.null THEN [thrown |-> TRUE, reviews |-> acc]
         ELSE IF ~review.object THEN PushReviews(acc, Tail(reviews), guest)
         ELSE LET reviewData == IF guest THEN GuestReviewData(review)
                                ELSE ListReviewData(review)
              IN
              IF reviewData.content # ""
              THEN PushReviews(Append(acc, reviewData), Tail(reviews), guest)
              ELSE PushReviews(acc, Tail(reviews), guest)

\* x || []: undefined gives the empty array
OrEmptyArray(x) == IF x.present THEN x ELSE Array(<<>>)

\* guestReviews.slice(0, 3) and reviewList.slice(0, 3)
ReviewSlice(items) == FirstN(items, 3)

\* the synthetic review, whose content is `Overall rating: ${reviewWord}`
OverallReview(reviewWord) == FeaturedReview("Booking.com", reviewWord)

\* the catch block returns what was pushed before the throw
ExtractFeaturedReviews(data) ==
    LET guestReviews == OrEmptyArray(Get(data, "guest_reviews", Absent))
        fromGuests == IF guestReviews.isArray
                      THEN PushReviews(<<>>, ReviewSlice(guestReviews.items), TRUE)
                      ELSE [thrown |-> FALSE, reviews |-> <<>>]
        reviewList == OrEmptyArray(IF Get(data, "review_list", Absent).present
                                   THEN data.review_list
                                   ELSE Get(data, "reviews", Absent))
        fromList == IF reviewList.isArray /\ Len(fromGuests.reviews) = 0
                    THEN PushReviews(fromGuests.reviews, ReviewSlice(reviewList.items), FALSE)
                    ELSE fromGuests
        reviewWord == Get(data, "review_score_word", "")
    IN
    IF fromGuests.thrown THEN fromGuests.reviews
    ELSE IF fromList.thrown THEN fromList.reviews
    ELSE IF Len(fromList.reviews) = 0 /\ reviewWord # ""
         THEN <<OverallReview(reviewWord)>>
         ELSE fromList.reviews

(***************************************************************************)
(* formatHotelDataEnhanced: the URLs.                                      *)
(***************************************************************************)
\* a URL, by whether it starts with https://www.booking.com
Url(booking, path) == [booking |-> booking, path |-> path]
NoUrl == Url(FALSE, "")

\* baseUrl: data.url, or a URL made from the country and the hotel name
BaseUrl(data) ==
    LET url == Get(data, "url", NoUrl) IN
    IF url.booking THEN url ELSE Url(TRUE, "/hotel/us/.html")

\* an entry of bookingParams
Param(key, value) == [key |-> key, isNumber |-> FALSE, value |-> value]
NumberParam(key, value) == [key |-> key, isNumber |-> TRUE, value |-> value]

\* bookingParams[key] = value: a key that is there keeps its place
AssignParam_Append(params, param) == Append(params, param)
AssignParam(params, param) ==
    IF \E i \in DOMAIN params : params[i].key = param.key
    THEN [i \in DOMAIN params |->
            IF params[i].key = param.key THEN param ELSE params[i]]
    ELSE Append(params, param)

\* children.forEach((age) => { bookingParams.req_age = age })
RECURSIVE AssignAges(_, _)
AssignAges(params, children) ==
    IF children = <<>> THEN params
    ELSE AssignAges(AssignParam(params, NumberParam("req_age", Head(children))),
                    Tail(children))

\* what formatHotelDataEnhanced reads of searchParams
BookingParams(searchParams) ==
    LET numAdults == IF searchParams.num_adults # 0 THEN searchParams.num_adults ELSE 1
        rooms == IF searchParams.rooms # 0 THEN searchParams.rooms ELSE 1
        children == searchParams.children
        fixed == <<Param("checkin", searchParams.check_in_date),
                   Param("checkout", searchParams.check_out_date),
                   NumberParam("group_adults", numAdults),
                   NumberParam("no_rooms", rooms),
                   NumberParam("req_adults", numAdults),
                   Param("sb_price_type", "total"),
                   Param("type", "total")>>
    IN
    IF Len(children) > 0
    THEN AssignAges(AssignParam(AssignParam(fixed,
                                    NumberParam("group_children", Len(children))),
                                NumberParam("req_children", Len(children))),
                    children)
    ELSE fixed

\* new URLSearchParams(bookingParams).toString(): key=value pairs in the
\* order of the keys, every value made a string
QueryString(params) ==
    [i \in DOMAIN params |->
        <<params[i].key,
          IF params[i].isNumber THEN String(params[i].value) ELSE params[i].value>>]

\* `${baseUrl}?${queryString}`
UrlBookingHotel(data, searchParams) ==
    [base |-> BaseUrl(data), query |-> QueryString(BookingParams(searchParams))]

\* from the return of getHotelPhotos on; whatever is thrown (by getHotelPhotos,
\* or a TypeError on a field of an unexpected type) is caught and returned as
\* { error }
FormatHotelDataEnhanced(hotelId, details, photos, searchParams) ==
    IF photos.tag = "throw" THEN [error |-> photos.error]
    ELSE IF ~details.wellFormed \/ (Len(photos.val) = 0 /\ FallbackThrows(details))
    THEN [error |-> TypeErrorMsg]
    ELSE [hotel_id |-> hotelId,
          photos |-> IF Len(photos.val) = 0
                     THEN PhotosFromDetails(details)
                     ELSE photos.val,
          rooms |-> RoomsResult(details),
          facilities |-> ArrayFromSet(FacilitiesResult(details)),
          featured_review |-> ExtractFeaturedReviews(details),
          rating_scores |-> RatingScores(details),
          url |-> BaseUrl(details),
          url_booking_hotel |-> UrlBookingHotel(details, searchParams)]

(***************************************************************************)
(* HotelSearchAPI.searchHotels, cut at its awaits.  A step ends by         *)
(* returning a list, by throwing, or by going on to the next await.        *)
(***************************************************************************)
\* the try/catch around the whole body of searchHotels
TryCatch_Rethrow(step) == step
TryCatch(step) ==
    IF step.tag = "throw" THEN Return(<<[error |-> step.error]>>) ELSE step

\* searchParams.max_results || 3 (0 stands for an absent or zero max_results)
MaxResultsOf(a) ==
    IF a.max_results # 0 THEN a.max_results ELSE DEFAULT_MAX_RESULTS

\* what is returned when a phase-1 or phase-2 call reports an error
ErrorResult(error) == <<[error |-> error]>>

\* what is returned when a phase yields nothing
EmptyResult_Error == <<[error |-> Msg("No hotels found", "")]>>
EmptyResult == <<>>

\* Phase 1, after await searchDestinationsByQuery
AfterDestinations(destinationsResult) ==
    IF "error" \in DOMAIN destinationsResult
    THEN Return(ErrorResult(destinationsResult.error))
    ELSE LET destinations == destinationsResult.destinations IN
         IF destinations.isArray /\ Len(destinations.items) = 0
         THEN Return(EmptyResult)
         ELSE IF ~destinations.isArray \/ destinations.items[1].null
              THEN Throw(TypeErrorMsg)
              ELSE Go(destinations.items[1])

MaxHotelsToProcess_Uncapped(n) == n
\* Math.min(10, hotelIds.length)
MaxHotelsToProcess(n) == Min(MAX_CANDIDATES, n)

\* Phase 2, after await searchHotelsByDestination
AfterListing(hotelsResult) ==
    IF "error" \in DOMAIN hotelsResult
    THEN Return(ErrorResult(hotelsResult.error))
    ELSE LET hotelIds == hotelsResult.hotel_ids IN
         IF Len(hotelIds) = 0
         THEN Return(EmptyResult)
         ELSE Go(SubSeq(hotelIds, 1, MaxHotelsToProcess(Len(hotelIds))))

BufferReached_Never(len, maxResults) == FALSE
BufferReached_Shared(len, maxResults) == len + requestCount >= maxResults + BUFFER + 4
\* if (validHotelDetails.length >= maxResults + 2) break
BufferReached(len, maxResults) == len >= maxResults + BUFFER

\* the loop over hotelDetailsResults; every promise is fulfilled, since
\* getHotelDetailsEnhanced catches all it throws.  details.error on a null
\* value throws
RECURSIVE FilterValid(_, _, _, _, _)
FilterValid(results, ids, maxResults, i, acc) ==
    IF i > Len(results) THEN Go(acc)
    ELSE LET details == results[i] IN
         IF details.null THEN Throw(TypeErrorMsg)
         ELSE IF details.error = <<>> /\ details.status
              THEN LET pushed == Append(acc, <<ids[i], details>>) IN
                   IF BufferReached(Len(pushed), maxResults)
                   THEN Go(pushed)
                   ELSE FilterValid(results, ids, maxResults, i + 1, pushed)
              ELSE FilterValid(results, ids, maxResults, i + 1, acc)

\* Phase 3, after await Promise.allSettled(detailPromises)
AfterDetails(results, ids, maxResults) ==
    LET filtered == FilterValid(results, ids, maxResults, 1, <<>>) IN
    IF filtered.tag = "throw" THEN filtered
    ELSE IF Len(filtered.val) = 0 THEN Return(EmptyResult)
    ELSE filtered

ResultsFull_Never(len, maxResults) == FALSE
\* if (finalResults.length >= maxResults) break
ResultsFull(len, maxResults) == len >= maxResults

\* the loop over formattedResults
RECURSIVE FinalResults(_, _, _, _)
FinalResults(formatted, maxResults, i, acc) ==
    IF i > Len(formatted) THEN acc
    ELSE IF "error" \notin DOMAIN formatted[i]
         THEN LET pushed == Append(acc, formatted[i]) IN
              IF ResultsFull(Len(pushed), maxResults)
              THEN pushed
              ELSE FinalResults(formatted, maxResults, i + 1, pushed)
         ELSE FinalResults(formatted, maxResults, i + 1, acc)

AfterFormat_Reversed(formatted, maxResults) ==
    Return(FinalResults([j \in 1..Len(formatted) |-> formatted[Len(formatted) + 1 - j]],
                        maxResults, 1, <<>>))
\* Phase 4, after await Promise.allSettled(formatPromises)
AfterFormat(formatted, maxResults) ==
    Return(FinalResults(formatted, maxResults, 1, <<>>))

(***************************************************************************)
(* The CallToolRequestSchema handler (src/src/index.ts).                   *)
(***************************************************************************)
\* a date argument: "YYYY-MM-DD" is a string that parses to a day (counted
\* from an epoch); other strings do not parse; other values are no strings
DateString(day) == [isString |-> TRUE, parses |-> TRUE, day |-> day]
Unparseable == [isString |-> TRUE, parses |-> FALSE, day |-> 0]
NotAString == [isString |-> FALSE, parses |-> FALSE, day |-> 0]

\* new Date("YYYY-MM-DD").getTime(), in hours: a date-only string is UTC midnight
GetTime(date) == date.day * 24

\* the server clock: the instant in hours (UTC) and the offset of local time
Clock(now, tz) == [now |-> now, tz |-> tz]

\* the calendar date of the server's local time
LocalDate(clock) == (clock.now + clock.tz) \div 24

\* today = new Date(); today.setHours(0, 0, 0, 0): local midnight, as an instant
Today(clock) == LocalDate(clock) * 24 - clock.tz

\* a destination argument
Text(isString, blank) == [isString |-> isString, blank |-> blank]
\* an adults argument
Number(isNumber, value) == [isNumber |-> isNumber, value |-> value]

\* request.params and the clock the handler reads; rooms and max_results are 0
\* when the argument is absent
ToolCall(name, hasArgs, destination, checkIn, checkOut, adults, children, rooms, maxResults, clock) ==
    [name |-> name, hasArgs |-> hasArgs, destination |-> destination,
     check_in_date |-> checkIn, check_out_date |-> checkOut, adults |-> adults,
     children |-> children, rooms |-> rooms, max_results |-> maxResults,
     clock |-> clock]

\* noon UTC of day 10 on a server whose local time is UTC
Noon == Clock(252, 0)

SearchRequest(k) ==
    ToolCall("search_hotels", TRUE, Text(TRUE, FALSE), DateString(11),
             DateString(12), Number(TRUE, 2), <<>>, 0, k, Noon)
\* the searchParams the handler makes of the arguments, as far as
\* formatHotelDataEnhanced reads them
SearchParamsOf(a) ==
    [check_in_date |-> a.check_in_date.day,
     check_out_date |-> a.check_out_date.day,
     num_adults |-> a.adults.value,
     children |-> a.children,
     rooms |-> IF a.rooms # 0 THEN a.rooms ELSE 1]

NoArguments == [SearchRequest(0) EXCEPT !.hasArgs = FALSE]
\* a blank destination
InvalidArguments == [SearchRequest(0) EXCEPT !.destination = Text(TRUE, TRUE)]
UnknownTool == [SearchRequest(0) EXCEPT !.name = "other_tool"]

\* the handler's catch: the response made of error.message (its text and the
\* argument values interpolated into it)
ErrorResponse(text, values) ==
    [isError |-> TRUE, text |-> text, values |-> values, total_requests |-> -1]

\* if (checkInDate < today)
PastCheckIn(checkIn, clock) == GetTime(checkIn) < Today(clock)

NotAfter_Strict(checkOut, checkIn) == GetTime(checkOut) < GetTime(checkIn)
\* if (checkOutDate <= checkInDate)
NotAfter(checkOut, checkIn) == GetTime(checkOut) <= GetTime(checkIn)

\* the handler up to the call of searchHotels: the response it returns without
\* searching, or NoResponse when it goes on to search
BeforeSearch(a) ==
    IF ~a.hasArgs THEN ErrorResponse("No arguments provided", <<>>)
    ELSE IF a.name # "search_hotels" THEN ErrorResponse("Unknown tool", <<>>)
    ELSE IF ~a.destination.isString \/ a.destination.blank
         THEN ErrorResponse("destination: must be a non-empty string", <<>>)
    ELSE IF ~a.check_in_date.isString
         THEN ErrorResponse("check_in_date: must be a string", <<>>)
    ELSE IF ~a.check_out_date.isString
         THEN ErrorResponse("check_out_date: must be a string", <<>>)
    ELSE IF ~a.adults.isNumber
         THEN ErrorResponse("adults: must be a number", <<>>)
    ELSE IF ~a.check_in_date.parses
         THEN ErrorResponse("check_in_date: could not be parsed", <<a.check_in_date>>)
    ELSE IF PastCheckIn(a.check_in_date, a.clock)
         THEN ErrorResponse("check_in_date: cannot be in the past", <<>>)
    ELSE IF ~a.check_out_date.parses
         THEN ErrorResponse("check_out_date: could not be parsed", <<a.check_out_date>>)
    ELSE IF NotAfter(a.check_out_date, a.check_in_date)
         THEN ErrorResponse("check_out_date: must be after check-in date",
                            <<a.check_in_date, a.check_out_date>>)
    ELSE IF a.adults.value < ADULTS_MINIMUM \/ a.adults.value > ADULTS_MAXIMUM
         THEN ErrorResponse("adults: must be between 1 and 30", <<a.adults>>)
    ELSE NoResponse

\* what the await of searchHotels gives the handler
SearchOutcome(step) ==
    IF step.tag = "return"
    THEN [kind |-> "returned", list |-> step.list]
    ELSE [kind |-> "rejected", list |-> <<>>]

\* the handler from the await of searchHotels on: getRequestCount() and the
\* response; a rejection lands in the handler's catch
AfterSearch(outcome, count) ==
    IF outcome.kind = "returned"
    THEN [isError |-> FALSE, text |-> "results", total_requests |-> count]
    ELSE ErrorResponse("Error", <<>>)

(***************************************************************************)
(* What the upstream may answer.                                           *)
(***************************************************************************)
OneDestination == Array(<<Destination("d1", "city")>>)

DestResponses ==
    {Http("200", Body(TRUE, OneDestination)),
     Http("200", Body(TRUE, Array(<<>>))),
     Http("200", Body(TRUE, Absent)),
     Http("200", Body(FALSE, OneDestination)),
     Http("200", Body(TRUE, NonArray)),
     Http("200", Body(TRUE, Array(<<NullItem>>))),
     Http("200", NullBody),
     Http("204", NullBody),
     NetworkError}
    \cup {Http(s, NullBody) : s \in ErrorStatuses}

HotelList(hotelsData) == Http("200", Body(TRUE, [present |-> TRUE, hotels |-> hotelsData]))

\* a listing of hotels 1..n
Listing(n) == HotelList(Array([i \in 1..n |-> Hotel(i)]))

\* a listing of three entries whose second has no hotel_id
ListingWithHole == HotelList(Array(<<Hotel(1), HotelWithoutId, Hotel(3)>>))

\* listings without a usable hotel list, and failed listing calls
OtherListings ==
    {HotelList(Absent),
     HotelList(Array(<<HotelWithoutId>>)),
     HotelList(NonArray),
     HotelList(Array(<<Hotel(1), NullItem>>)),
     Http("200", Body(TRUE, Absent)),
     Http("200", Body(FALSE, Absent)),
     Http("200", NullBody),
     Http("204", NullBody),
     NetworkError}
    \cup {Http(s, NullBody) : s \in ErrorStatuses}

DetailResponses ==
    {Http("200", DetailValid),
     Http("200", DetailBadShape),
     Http("200", DetailNoData),
     Http("200", DetailNoStatus),
     Http("200", NullBody),
     Http("500", NullBody),
     NetworkError}

TwoPhotos == Array(<<Photo("o1", "", "", ""), Photo("", "m2", "", "")>>)

PhotoResponses ==
    {Http("200", Body(TRUE, TwoPhotos)),
     Http("200", Body(TRUE, Absent)),
     Http("500", NullBody)}

Rejections == {NoArguments, InvalidArguments, UnknownTool}

(***************************************************************************)
(* What formatHotelDataEnhanced may be given (SpecFormat).                 *)
(***************************************************************************)
Urls == <<"u1", "u2", "u3", "u4", "u5", "u6", "u7", "u8">>

\* every sequence over S of length at most n
SeqsUpTo(S, n) == UNION {[1..k -> S] : k \in 0..n}

\* n entries with the distinct URLs u1..un
DistinctPhotos(n) == [i \in 1..n |-> Photo(Urls[i], "", "", "")]

\* entries that repeat a URL, lack one, carry it in a smaller size, are null,
\* or are no objects
OddEntries ==
    {Photo("u1", "", "", ""), Photo("", "u1", "u2", ""), Photo("", "", "", "u2"),
     Photo("", "", "", ""), NullItem, NonObject}

PhotoLists ==
    {DistinctPhotos(n) : n \in 0..MaxPhotos} \cup SeqsUpTo(OddEntries, 2)

\* what the photo endpoint may answer
PhotoAnswers ==
    {Http("200", Body(TRUE, Array(list))) : list \in PhotoLists}
    \cup {Http("200", Body(TRUE, Absent)), Http("200", Body(TRUE, NonArray)),
          Http("200", Body(FALSE, Array(DistinctPhotos(1)))),
          Http("200", NullBody), Http("204", NullBody), NetworkError}
    \cup {Http(s, NullBody) : s \in ErrorStatuses}

EmbeddedPhotos ==
    {Absent, NonArray}
    \cup {Array(list) : list \in {DistinctPhotos(n) : n \in 0..MaxPhotos}}
    \cup {Array(<<Photo("u1", "", "", ""), Photo("", "u1", "", ""), Photo("", "", "u2", "")>>),
          Array(<<Photo("", "", "", ""), NonObject, Photo("u7", "", "", "")>>),
          Array(<<NullItem>>),
          Array(DistinctPhotos(4) \o <<NullItem>>)}

Highlights ==
    SeqsUpTo({Highlight("", "Pool"), Highlight("u1", "Pool"), Highlight("u7", "")}, 2)
    \cup {<<Highlight("u7", "Wifi"), Highlight("u8", "Spa")>>}

RoomLists ==
    {<<>>,
     <<Room(<<RoomPhoto("r1", "", ""), RoomPhoto("", "", "r1")>>)>>,
     <<Room(<<>>), Room(<<RoomPhoto("", "r1", "r2"), NonObject>>),
       Room(<<RoomPhoto("r2", "", ""), RoomPhoto("r3", "", ""), RoomPhoto("r4", "", "")>>)>>,
     <<Room(<<RoomPhoto("r1", "", ""), RoomPhoto("r2", "", ""),
              RoomPhoto("r3", "", ""), RoomPhoto("r4", "", "")>>)>>}

FacilityBlocks ==
    {<<>>, <<<<"Pool", "", "Pool">>>>, <<<<"Wifi">>, <<>>, <<"Spa", "Wifi">>>>}

\* payloads that differ in what photos are read from
PhotoPayloads ==
    {DetailsOf(main, photos, highlights, rooms, <<>>) :
        main \in {"", "u1", "u8"}, photos \in EmbeddedPhotos,
        highlights \in Highlights, rooms \in RoomLists}

\* payloads that differ in what facilities are read from
FacilityPayloads ==
    {DetailsOf("u1", Absent, highlights, <<>>, block) :
        highlights \in Highlights, block \in FacilityBlocks}

\* a payload with further fields of data
WithFields(details, fields) == fields @@ details

\* score blocks: none, an object with or without a rating, a number
ScoreBlocks == {NoScoreBlock, ScoreBlock(8), ScoreBlock(0), ScoreNumber}

\* payloads that differ in what rating scores are read from
RatingPayloads ==
    {WithFields(DetailValid, [breakfast_review_score |-> breakfast,
                              wifi_review_score |-> wifi,
                              review_score |-> overall]) :
        breakfast \in ScoreBlocks, wifi \in ScoreBlocks, overall \in {0, 9}}
    \cup {WithFields(DetailValid, [rating |-> 7])}

\* review entries: with content, with text only, with a positive part only,
\* without any, null, and no object
ReviewEntries ==
    {Review("Ann", "g1", "", ""), Review("", "", "t1", ""), Review("Bob", "", "", "p1"),
     Review("", "", "", ""), NullItem, NonObject}

\* n reviews that have content, text and an author
DistinctReviews(n) == [i \in 1..n |-> Review("Ann", Urls[i], Urls[i + 3], "")]

GuestReviewLists ==
    {Absent, NonArray}
    \cup {Array(list) : list \in SeqsUpTo(ReviewEntries, 2)}
    \cup {Array(DistinctReviews(n)) : n \in 3..MaxReviews}
    \cup {Array(<<Review("", "", "", ""), NonObject, Review("", "", "t1", ""),
                  Review("Ann", "g1", "", "")>>),
          Array(<<Review("Ann", "g1", "", ""), NullItem, Review("Ann", "g2", "", "")>>)}

ReviewLists ==
    {Absent, NonArray, Array(<<>>), Array(<<Review("", "", "t1", "")>>),
     Array(<<Review("Ann", "g1", "", "")>>), Array(<<NullItem>>)}
    \cup {Array(DistinctReviews(n)) : n \in 3..MaxReviews}

\* payloads that differ in what featured reviews are read from
ReviewPayloads ==
    {WithFields(DetailValid, [guest_reviews |-> guests, review_list |-> list,
                              review_score_word |-> word]) :
        guests \in GuestReviewLists, list \in ReviewLists, word \in {"", "Good"}}
    \cup {WithFields(DetailValid, [reviews |-> list, review_score_word |-> "Good"]) :
              list \in ReviewLists}

PriceBreakdowns ==
    {PriceBreakdown(gross, perNight, nrStays) :
        gross \in {NoAmount, Amount("300", "299.5", "EUR"), Amount("", "299.5", "")},
        perNight \in {NoAmount, Amount("100", "", "EUR")},
        nrStays \in {NoStays, Stays(-1)} \cup {Stays(n) : n \in 0..MaxStays}}

PricedRoomLists ==
    {<<>>,
     <<Room(<<>>)>>,
     <<Room(<<>>), [photos |-> <<>>, description |-> "Double"], Room(<<>>)>>}

\* payloads that differ in what rooms and prices are read from
RoomPayloads ==
    {WithFields(DetailsOf("u1", Absent, <<>>, rooms, <<>>),
                [product_price_breakdown |-> breakdown]) :
        rooms \in PricedRoomLists, breakdown \in PriceBreakdowns}
    \cup {DetailsOf("u1", Absent, <<>>, rooms, <<>>) : rooms \in PricedRoomLists}

\* payloads that differ in their url
UrlPayloads ==
    {WithFields(DetailValid, [url |-> url]) :
        url \in {Url(TRUE, "/hotel/fr/x.html"), Url(FALSE, "/x")}}
    \cup {DetailValid}

\* searchParams that differ in the children
ChildrenParams ==
    {[SearchParamsOf(SearchRequest(1)) EXCEPT !.children = children] :
        children \in SeqsUpTo({0, 5, CHILD_AGE_MAXIMUM}, MaxChildren)}

FormatPayloads ==
    PhotoPayloads \cup FacilityPayloads
    \cup RatingPayloads \cup ReviewPayloads \cup RoomPayloads
    \cup {DetailBadShape, DetailNoData, DetailNoStatus, NullBody}

(***************************************************************************)
(* The environments: who calls, with what, and what the upstream answers. *)
(***************************************************************************)
\* one caller at a time, every kind of answer, short listings
SeqEnv ==
    [callers |-> {1},
     fixed |-> FALSE,
     requests |-> {SearchRequest(k) : k \in 0..MaxK} \cup Rejections,
     dest |-> DestResponses,
     listing |-> {Listing(n) : n \in 0..MaxListed} \cup {ListingWithHole}
                 \cup OtherListings,
     detail |-> DetailResponses,
     photo |-> PhotoResponses]

\* one caller at a time, every max_results, listings up to beyond the ceiling
\* of 10, every detail and photo call answered well
CapEnv ==
    [callers |-> {1},
     fixed |-> FALSE,
     requests |-> {SearchRequest(k) : k \in 1..MAX_RESULTS_MAXIMUM}
                  \cup {InvalidArguments},
     dest |-> {Http("200", Body(TRUE, OneDestination)), Http("401", NullBody)},
     listing |-> {Listing(n) : n \in 0..MaxListedCap} \cup {Http("500", NullBody)},
     detail |-> {Http("200", DetailValid)},
     photo |-> {Http("200", Body(TRUE, TwoPhotos))}]

\* two callers whose tool calls may overlap
ConcEnv ==
    [callers |-> Calls,
     fixed |-> FALSE,
     requests |-> {SearchRequest(1), InvalidArguments},
     dest |-> {Http("200", Body(TRUE, OneDestination)), Http("401", NullBody)},
     listing |-> {Listing(n) : n \in 0..MaxListedConc},
     detail |-> {Http("200", DetailValid), Http("500", NullBody)},
     photo |-> {Http("200", Body(TRUE, TwoPhotos))}]

\* the clocks of servers west of, at and east of UTC, early and late on day 10
Clocks == {Clock(now, tz) : now \in {240, 261}, tz \in {-5, 0, 9}}

\* the dates around the clocks' day, up to MaxAhead days after the latest
DateArgs == {NotAString, Unparseable} \cup {DateString(d) : d \in 9..(11 + MaxAhead)}

\* calls that differ in their dates and in the server clock
DateCalls ==
    {[SearchRequest(1) EXCEPT !.check_in_date = checkIn,
                              !.check_out_date = checkOut, !.clock = clock] :
        checkIn \in DateArgs, checkOut \in DateArgs, clock \in Clocks}

\* calls that differ in destination and adults
PartyCalls ==
    {[SearchRequest(1) EXCEPT !.destination = destination, !.adults = adults] :
        destination \in {Text(TRUE, FALSE), Text(TRUE, TRUE), Text(FALSE, FALSE)},
        adults \in {Number(FALSE, 0)}
                  \cup {Number(TRUE, n) : n \in {0, 1, ADULTS_MAXIMUM, ADULTS_MAXIMUM + 1}}}

\* calls that differ in the optional arguments
OptionCalls ==
    {[SearchRequest(maxResults) EXCEPT !.children = children, !.rooms = rooms] :
        children \in {<<>>, <<0, CHILD_AGE_MAXIMUM>>, <<CHILD_AGE_MAXIMUM + 1>>, <<-1>>},
        rooms \in {0, 1, ROOMS_MAXIMUM, ROOMS_MAXIMUM + 1},
        maxResults \in {0, 1, MAX_RESULTS_MAXIMUM, MAX_RESULTS_MAXIMUM + 1}}

\* one caller at a time, every kind of argument, an upstream that answers
\* every call well, with one hotel or with two and an entry without id
ArgsEnv ==
    [callers |-> {1},
     fixed |-> FALSE,
     requests |-> DateCalls \cup PartyCalls \cup OptionCalls
                  \cup {NoArguments, UnknownTool},
     dest |-> {Http("200", Body(TRUE, OneDestination))},
     listing |-> {Listing(1), ListingWithHole},
     detail |-> {Http("200", DetailValid)},
     photo |-> {Http("200", Body(TRUE, TwoPhotos))}]

\* one caller at a time, listings of up to MaxListedRef hotels, detail calls
\* that succeed, fail, or succeed with a payload that cannot be normalized
RefEnv ==
    [callers |-> {1},
     fixed |-> FALSE,
     requests |-> {SearchRequest(1), SearchRequest(DEFAULT_MAX_RESULTS)},
     dest |-> {Http("200", Body(TRUE, OneDestination))},
     listing |-> {Listing(n) : n \in 0..MaxListedRef} \cup {ListingWithHole},
     detail |-> {Http("200", DetailValid), Http("200", DetailBadShape),
                 Http("500", NullBody)},
     photo |-> {Http("200", Body(TRUE, TwoPhotos))}]

\* two callers whose calls may overlap, and an upstream that answers every
\* request the same way each time it is made: one listing of env.n hotels,
\* and per hotel the detail answer env.detailOf and the photo answer env.photoOf
FixedEnv ==
    [callers |-> Calls,
     fixed |-> TRUE,
     requests |-> {SearchRequest(1), SearchRequest(2), InvalidArguments},
     dest |-> {Http("200", Body(TRUE, OneDestination))},
     listing |-> {Listing(env.n)},
     detail |-> {},
     photo |-> {}]

\* no caller: no tool call is made
NoCallsEnv == [SeqEnv EXCEPT !.callers = {}]

\* the value of env that stands for an environment above
EnvNamed(name) == [name |-> name, n |-> 0, detailOf |-> <<>>, photoOf |-> <<>>]

\* the values of env that stand for a fixed upstream
FixedEnvs ==
    UNION {{[name |-> "FixedEnv", n |-> n, detailOf |-> detailOf,
             photoOf |-> [i \in 1..n |->
                            IF i % 2 = 1 THEN Http("200", Body(TRUE, TwoPhotos))
                            ELSE Http("500", NullBody)]] :
               detailOf \in [1..n -> {Http("200", DetailValid),
                                      Http("200", DetailNoData),
                                      Http("500", NullBody)}]} :
           n \in 1..MaxListedFixed}

\* two callers whose tool calls may overlap, with answers of every phase that
\* end a search early, make it throw, or let it go on
LiveEnv ==
    [callers |-> Calls,
     fixed |-> FALSE,
     requests |-> {SearchRequest(1), InvalidArguments},
     dest |-> {Http("200", Body(TRUE, OneDestination)),
               Http("200", Body(TRUE, Array(<<>>))),
               Http("200", Body(TRUE, NonArray)),
               Http("401", NullBody)},
     listing |-> {Listing(n) : n \in 0..MaxListedLive} \cup {Http("500", NullBody)},
     detail |-> {Http("200", DetailValid), Http("500", NullBody)},
     photo |-> {Http("200", Body(TRUE, TwoPhotos)), Http("500", NullBody)}]

\* the environment the run is in
Environment ==
    CASE env.name = "SeqEnv" -> SeqEnv
      [] env.name = "CapEnv" -> CapEnv
      [] env.name = "ConcEnv" -> ConcEnv
      [] env.name = "ArgsEnv" -> ArgsEnv
      [] env.name = "RefEnv" -> RefEnv
      [] env.name = "NoCallsEnv" -> NoCallsEnv
      [] env.name = "FixedEnv" -> FixedEnv
      [] env.name = "LiveEnv" -> LiveEnv

(***************************************************************************)
(* Actions.                                                                *)
(***************************************************************************)
Searching(c) == pc[c] \in {"dest", "list", "details", "format"}

NoPending_Never(slots) == FALSE
NoPending(slots) == \A i \in DOMAIN slots : slots[i] # Pending

\* await Promise.allSettled(formatPromises) resumes
FormatSettled_Any(formatted) == \E j \in DOMAIN formatted : formatted[j] # Pending
FormatSettled(formatted) == NoPending(formatted)

\* how a normalization ended
FormatClass(formatted) ==
    IF formatted = Pending THEN "pending"
    ELSE IF "error" \in DOMAIN formatted THEN "failure"
    ELSE "record"

\* what the upstream may answer to the detail and the photo call of a hotel:
\* any answer of the environment, or the one answer a fixed upstream gives
DetailAnswersFor(hotelId) ==
    IF Environment.fixed THEN {env.detailOf[hotelId]} ELSE Environment.detail
PhotoAnswersFor(hotelId) ==
    IF Environment.fixed THEN {env.photoOf[hotelId]} ELSE Environment.photo

CountPending(slots) == Cardinality({i \in DOMAIN slots : slots[i] = Pending})

\* a promise handed to Promise.allSettled that has not settled yet: only such
\* a promise takes an answer, and it takes one
Awaited_Again(slot) == IF slot = Pending THEN TRUE ELSE "error" \in DOMAIN slot
Awaited(slot) == slot = Pending

\* how a detail fetch ended, as the filter of phase 3 sees it
DetailClass(details) ==
    IF details.null THEN "null"
    ELSE IF details.error = <<>> /\ details.status THEN "ok"
    ELSE "failed"

\* searchHotels returns (or rejects) and the handler resumes in the same turn
Finish(c, step, count) ==
    /\ requestCount' = count
    /\ hotels' = [hotels EXCEPT ![c] = SearchOutcome(step)]
    /\ response' = [response EXCEPT ![c] = AfterSearch(SearchOutcome(step), count)]
    /\ pc' = [pc EXCEPT ![c] = "done"]
    /\ hotelIdsToProcess' = [hotelIdsToProcess EXCEPT ![c] = <<>>]
    /\ hotelDetailsResults' = [hotelDetailsResults EXCEPT ![c] = <<>>]
    /\ validHotelDetails' = [validHotelDetails EXCEPT ![c] = <<>>]
    /\ formattedResults' = [formattedResults EXCEPT ![c] = <<>>]

\* the counter when the handler answers without calling searchHotels: nothing
\* on that path touches hotelAPI
CountWhenRejected_Reset(count) == resetRequestCount(count)
CountWhenRejected(count) == count

\* a tools/call request arrives: the handler runs up to its first await,
\* which is the axios.get of searchDestinationsByQuery
CallTool(c) ==
    /\ c \in Environment.callers
    /\ pc[c] \in {"idle", "done"}
    /\ \E a \in Environment.requests :
        /\ args' = [args EXCEPT ![c] = a]
        /\ hotels' = [hotels EXCEPT ![c] = NoHotels]
        /\ answered' = [answered EXCEPT ![c] = [dest |-> NoResponse, list |-> NoResponse]]
        /\ settled' = [settled EXCEPT ![c] = <<>>]
        /\ listed' = [listed EXCEPT ![c] = 0]
        /\ normalized' = [normalized EXCEPT ![c] = <<>>]
        /\ listingParams' = [listingParams EXCEPT ![c] = NoParams]
        /\ IF BeforeSearch(a) # NoResponse
           THEN /\ response' = [response EXCEPT ![c] = BeforeSearch(a)]
                /\ pc' = [pc EXCEPT ![c] = "done"]
                /\ issued' = [issued EXCEPT ![c] = NoIssued]
                /\ overlapped' = [overlapped EXCEPT ![c] = FALSE]
                /\ requestCount' = CountWhenRejected(requestCount)
           ELSE /\ response' = [response EXCEPT ![c] = NoResponse]
                /\ pc' = [pc EXCEPT ![c] = "dest"]
                /\ requestCount' = TrackRequests(resetRequestCount(requestCount), 1)
                /\ issued' = [issued EXCEPT ![c] = [NoIssued EXCEPT !.dest = 1]]
                /\ overlapped' =
                     [d \in Calls |->
                        IF \E o \in Calls \ {c} : Searching(o)
                        THEN (d = c \/ Searching(d) \/ overlapped[d])
                        ELSE (d # c /\ overlapped[d])]
    /\ UNCHANGED <<env, hotelIdsToProcess, hotelDetailsResults, validHotelDetails,
                   formattedResults>>
    /\ UNCHANGED formatVars

\* the destination call settles; searchHotels runs to the listing call
DestinationSettles(c) ==
    /\ pc[c] = "dest"
    /\ \E resp \in Environment.dest :
        LET step == TryCatch(AfterDestinations(SearchDestinationsByQuery(resp))) IN
        /\ answered' = [answered EXCEPT ![c].dest = resp]
        /\ IF step.tag = "go"
           THEN /\ requestCount' = TrackRequests(requestCount, 1)
                /\ issued' = [issued EXCEPT ![c].list = 1]
                /\ listingParams' =
                     [listingParams EXCEPT ![c] = ListerParams(args[c].children)]
                /\ pc' = [pc EXCEPT ![c] = "list"]
                /\ UNCHANGED <<hotels, response, hotelIdsToProcess,
                               hotelDetailsResults, validHotelDetails,
                               formattedResults>>
           ELSE /\ Finish(c, step, requestCount)
                /\ UNCHANGED <<issued, listingParams>>
    /\ UNCHANGED <<env, args, settled, listed, overlapped, normalized>>
    /\ UNCHANGED formatVars

\* the listing call settles; searchHotels issues every detail call
ListingSettles(c) ==
    /\ pc[c] = "list"
    /\ \E resp \in Environment.listing :
        LET hotelsResult == SearchHotelsByDestination(resp)
            step == TryCatch(AfterListing(hotelsResult))
        IN
        /\ answered' = [answered EXCEPT ![c].list = resp]
        /\ listed' = [listed EXCEPT ![c] =
                         IF "error" \in DOMAIN hotelsResult THEN 0
                         ELSE Len(hotelsResult.hotel_ids)]
        /\ IF step.tag = "go"
           THEN /\ hotelIdsToProcess' = [hotelIdsToProcess EXCEPT ![c] = step.val]
                /\ hotelDetailsResults' =
                     [hotelDetailsResults EXCEPT
                        ![c] = [i \in 1..Len(step.val) |-> Pending]]
                /\ settled' = [settled EXCEPT
                                 ![c] = [i \in 1..Len(step.val) |-> "pending"]]
                /\ requestCount' = TrackRequests(requestCount, Len(step.val))
                /\ issued' = [issued EXCEPT ![c].detail = Len(step.val)]
                /\ pc' = [pc EXCEPT ![c] = "details"]
                /\ UNCHANGED <<hotels, response, validHotelDetails, formattedResults>>
           ELSE /\ Finish(c, step, requestCount)
                /\ UNCHANGED <<issued, settled>>
    /\ UNCHANGED <<env, args, overlapped, normalized, listingParams>>
    /\ UNCHANGED formatVars

\* the formatHotelDataEnhanced promises right after the map that made them:
\* invalid details are settled at once, the others wait for their photo call
FormatPromises_AllFetch(valid) == [j \in 1..Len(valid) |-> Pending]
FormatPromises(valid) ==
    [j \in 1..Len(valid) |->
       IF InvalidHotelDetails(valid[j][2])
       THEN [error |-> Msg("Invalid hotel details", "")]
       ELSE Pending]

\* one detail call settles; when it is the last, Promise.allSettled resolves
\* and searchHotels runs to the photo calls
DetailSettles(c) ==
    /\ pc[c] = "details"
    /\ \E i \in DOMAIN hotelDetailsResults[c] :
       \E resp \in DetailAnswersFor(hotelIdsToProcess[c][i]) :
        /\ Awaited(hotelDetailsResults[c][i])
        /\ \E results \in {[hotelDetailsResults[c] EXCEPT ![i] = GetHotelDetailsEnhanced(resp)]} :
           /\ settled' = [settled EXCEPT ![c][i] = DetailClass(results[i])]
           /\ IF ~NoPending(results)
              THEN /\ hotelDetailsResults' = [hotelDetailsResults EXCEPT ![c] = results]
                   /\ UNCHANGED <<requestCount, pc, hotelIdsToProcess,
                                  validHotelDetails, formattedResults, hotels,
                                  response, issued, normalized>>
              ELSE \E step \in {TryCatch(AfterDetails(results, hotelIdsToProcess[c], MaxResultsOf(args[c])))} :
                   IF step.tag # "go"
                   THEN /\ Finish(c, step, requestCount)
                        /\ UNCHANGED <<issued, normalized>>
                   ELSE \E promises \in {FormatPromises(step.val)} :
                        /\ issued' = [issued EXCEPT ![c].photo = CountPending(promises)]
                        /\ normalized' =
                             [normalized EXCEPT
                                ![c] = [j \in DOMAIN promises |-> FormatClass(promises[j])]]
                        /\ IF FormatSettled(promises)
                           THEN Finish(c, TryCatch(AfterFormat(promises, MaxResultsOf(args[c]))),
                                       requestCount)
                           ELSE /\ requestCount' =
                                     TrackRequests(requestCount, CountPending(promises))
                                /\ hotelDetailsResults' =
                                     [hotelDetailsResults EXCEPT ![c] = <<>>]
                                /\ validHotelDetails' =
                                     [validHotelDetails EXCEPT ![c] = step.val]
                                /\ formattedResults' =
                                     [formattedResults EXCEPT ![c] = promises]
                                /\ pc' = [pc EXCEPT ![c] = "format"]
                                /\ UNCHANGED <<hotelIdsToProcess, hotels, response>>
    /\ UNCHANGED <<env, args, answered, listed, overlapped, listingParams>>
    /\ UNCHANGED formatVars

\* one photo call settles and its formatHotelDataEnhanced completes; when it
\* is the last, searchHotels returns and the handler answers
PhotoSettles(c) ==
    /\ pc[c] = "format"
    /\ \E j \in DOMAIN formattedResults[c] :
       \E resp \in PhotoAnswersFor(validHotelDetails[c][j][1]) :
        /\ Awaited(formattedResults[c][j])
        /\ \E formatted \in
                 {[formattedResults[c] EXCEPT
                     ![j] = FormatHotelDataEnhanced(validHotelDetails[c][j][1],
                                                    validHotelDetails[c][j][2],
                                                    GetHotelPhotos(resp),
                                                    SearchParamsOf(args[c]))]} :
           /\ normalized' = [normalized EXCEPT ![c][j] = FormatClass(formatted[j])]
           /\ IF FormatSettled(formatted)
              THEN Finish(c, TryCatch(AfterFormat(formatted, MaxResultsOf(args[c]))),
                          requestCount)
              ELSE /\ formattedResults' = [formattedResults EXCEPT ![c] = formatted]
                   /\ UNCHANGED <<requestCount, pc, hotelIdsToProcess,
                                  hotelDetailsResults, validHotelDetails, hotels,
                                  response>>
    /\ UNCHANGED <<env, args, answered, settled, listed, issued, overlapped,
                   listingParams>>
    /\ UNCHANGED formatVars

Next ==
    \E c \in Calls :
        \/ CallTool(c)
        \/ DestinationSettles(c)
        \/ ListingSettles(c)
        \/ DetailSettles(c)
        \/ PhotoSettles(c)

\* formatHotelDataEnhanced is given a payload without status or data and
\* returns at once
FormatInvalid ==
    /\ formattedHotel = Pending
    /\ InvalidHotelDetails(hotelDetails)
    /\ formattedHotel' = [error |-> Msg("Invalid hotel details", "")]
    /\ UNCHANGED <<searchVars, hotelDetails, paramsGiven, photoAnswer>>

\* the photo call of formatHotelDataEnhanced settles and the record is made
FormatPhotoSettles ==
    /\ formattedHotel = Pending
    /\ ~InvalidHotelDetails(hotelDetails)
    /\ \E resp \in PhotoAnswers :
        /\ photoAnswer' = resp
        /\ formattedHotel' = FormatHotelDataEnhanced(1, hotelDetails, GetHotelPhotos(resp),
                                                      paramsGiven)
    /\ UNCHANGED <<searchVars, hotelDetails, paramsGiven>>

NextFormat == FormatInvalid \/ FormatPhotoSettles

InitWith(e) ==
    /\ env = e
    /\ requestCount = 0
    /\ pc = [c \in Calls |-> "idle"]
    /\ args = [c \in Calls |-> NoArguments]
    /\ hotelIdsToProcess = [c \in Calls |-> <<>>]
    /\ hotelDetailsResults = [c \in Calls |-> <<>>]
    /\ validHotelDetails = [c \in Calls |-> <<>>]
    /\ formattedResults = [c \in Calls |-> <<>>]
    /\ hotels = [c \in Calls |-> NoHotels]
    /\ response = [c \in Calls |-> NoResponse]
    /\ answered = [c \in Calls |-> [dest |-> NoResponse, list |-> NoResponse]]
    /\ settled = [c \in Calls |-> <<>>]
    /\ listed = [c \in Calls |-> 0]
    /\ issued = [c \in Calls |-> NoIssued]
    /\ overlapped = [c \in Calls |-> FALSE]
    /\ normalized = [c \in Calls |-> <<>>]
    /\ listingParams = [c \in Calls |-> NoParams]

\* no formatHotelDataEnhanced is run on its own
NoFormatCall ==
    /\ hotelDetails = NullBody
    /\ paramsGiven = SearchParamsOf(NoArguments)
    /\ photoAnswer = NoResponse
    /\ formattedHotel = Pending

Init == InitWith(EnvNamed("SeqEnv")) /\ NoFormatCall
InitCap == InitWith(EnvNamed("CapEnv")) /\ NoFormatCall
InitConc == InitWith(EnvNamed("ConcEnv")) /\ NoFormatCall
InitArgs == InitWith(EnvNamed("ArgsEnv")) /\ NoFormatCall
InitRef == InitWith(EnvNamed("RefEnv")) /\ NoFormatCall
InitFixed == (\E e \in FixedEnvs : InitWith(e)) /\ NoFormatCall
InitLive == InitWith(EnvNamed("LiveEnv")) /\ NoFormatCall

\* formatHotelDataEnhanced on its own, given any payload; no tool call is made
InitFormat ==
    /\ InitWith(EnvNamed("NoCallsEnv"))
    /\ \/ hotelDetails \in FormatPayloads /\ paramsGiven = SearchParamsOf(SearchRequest(1))
       \/ hotelDetails \in UrlPayloads /\ paramsGiven \in ChildrenParams
    /\ photoAnswer = NoResponse
    /\ formattedHotel = Pending

Spec == Init /\ [][Next]_vars
SpecCap == InitCap /\ [][Next]_vars
SpecConc == InitConc /\ [][Next]_vars
SpecArgs == InitArgs /\ [][Next]_vars
SpecRef == InitRef /\ [][Next]_vars
SpecFixed == InitFixed /\ [][Next]_vars
SpecFormat == InitFormat /\ [][NextFormat]_vars

\* every issued upstream call settles: an axios.get promise that is awaited
\* resolves or rejects, and the continuation that awaits it is then run
UpstreamSettles ==
    \A c \in Calls :
        /\ WF_vars(DestinationSettles(c))
        /\ WF_vars(ListingSettles(c))
        /\ WF_vars(DetailSettles(c))
        /\ WF_vars(PhotoSettles(c))

SpecLive == InitLive /\ [][Next]_vars /\ UpstreamSettles

(***************************************************************************)
(* Properties.                                                             *)
(***************************************************************************)
IsHotelRecord(x) == "error" \notin DOMAIN x
IsFailure(x) == "error" \in DOMAIN x

Done(c) == pc[c] = "done"
Searched(c) == Done(c) /\ hotels[c].kind # "none"

HttpError(resp) == resp.kind = "http" /\ resp.status \in ErrorStatuses

\* the candidate positions whose detail fetch succeeded, in candidate order
SuccessPositions(c) ==
    SelectSeq([i \in 1..Len(settled[c]) |-> i], LAMBDA i : settled[c][i] = "ok")

KeptIds(c) == [j \in 1..Len(validHotelDetails[c]) |-> validHotelDetails[c][j][1]]

\* C1: a search with max_results = k, 1 <= k <= 10, returns at most k
\* HotelRecord elements, whatever the upstream answered.
C1_AtMostMaxResults ==
    \A c \in Calls :
        (Searched(c) /\ args[c].max_results \in 1..MAX_RESULTS_MAXIMUM)
            => Len(SelectSeq(hotels[c].list, IsHotelRecord)) <= args[c].max_results

\* more hotels were normalized than asked for, and exactly max_results came back
C1_Witness ==
    \E c \in Calls :
        /\ Searched(c)
        /\ args[c].max_results = 1
        /\ issued[c].photo >= 3
        /\ Len(hotels[c].list) = 1
        /\ IsHotelRecord(hotels[c].list[1])

\* C2: the number of detail calls issued is at most min(10, n) for n listed
\* hotel ids, whatever max_results is.
C2_CandidateCap ==
    \A c \in Calls :
        /\ issued[c].detail <= listed[c]
        /\ issued[c].detail <= 10

\* eleven hotels listed, ten detail calls issued, with max_results = 1
C2_Witness ==
    \E c \in Calls :
        /\ listed[c] = 11
        /\ issued[c].detail = 10
        /\ args[c].max_results = 1

\* C3: the details kept for normalization are exactly the first
\* min(s, max_results + 2) successful detail fetches in candidate order, so
\* never more than max_results + 2, later successes being discarded.
C3_BufferOfKept ==
    \A c \in Calls :
        pc[c] = "format" =>
            LET ok == SuccessPositions(c)
                size == Min(Len(ok), MaxResultsOf(args[c]) + 2)
            IN /\ Len(validHotelDetails[c]) <= MaxResultsOf(args[c]) + 2
               /\ KeptIds(c) = [j \in 1..size |-> hotelIdsToProcess[c][ok[j]]]

\* four fetches succeeded with max_results = 1: three kept, the fourth discarded
C3_Witness ==
    \E c \in Calls :
        /\ pc[c] = "format"
        /\ args[c].max_results = 1
        /\ Len(SuccessPositions(c)) = 4
        /\ Len(validHotelDetails[c]) = 3

\* C4: when the destination call or the listing call fails with an HTTP error
\* status s, the search returns exactly one failure element whose message
\* holds s, and no upstream call is issued after the failed one.
C4_FatalHttpError ==
    \A c \in Calls :
        Done(c) =>
            /\ HttpError(answered[c].dest) =>
                  /\ hotels[c].kind = "returned"
                  /\ Len(hotels[c].list) = 1
                  /\ IsFailure(hotels[c].list[1])
                  /\ hotels[c].list[1].error.status = answered[c].dest.status
                  /\ issued[c] = [NoIssued EXCEPT !.dest = 1]
            /\ HttpError(answered[c].list) =>
                  /\ hotels[c].kind = "returned"
                  /\ Len(hotels[c].list) = 1
                  /\ IsFailure(hotels[c].list[1])
                  /\ hotels[c].list[1].error.status = answered[c].list.status
                  /\ issued[c] = [NoIssued EXCEPT !.dest = 1, !.list = 1]

\* the destination call was answered 401
C4_Witness ==
    \E c \in Calls :
        /\ Done(c)
        /\ HttpError(answered[c].dest)
        /\ answered[c].dest.status = "401"

\* a 200 answer with status and a data array of no destinations
NoDestinations(resp) ==
    /\ resp.kind = "http" /\ resp.status = "200"
    /\ ~resp.body.null /\ resp.body.status
    /\ resp.body.data.present /\ resp.body.data.isArray
    /\ resp.body.data.items = <<>>

\* a 200 answer with status and data whose hotel list holds no hotel id
NoHotelIds(resp) ==
    /\ resp.kind = "http" /\ resp.status = "200"
    /\ ~resp.body.null /\ resp.body.status
    /\ resp.body.data.present
    /\ \/ ~resp.body.data.hotels.present
       \/ /\ resp.body.data.hotels.isArray
          /\ \A h \in Range(resp.body.data.hotels.items) : ~h.null /\ ~h.hasId

\* every detail fetch settled and none is valid (none answered a null body,
\* which is no empty set but an exception)
NoValidDetail(c) ==
    /\ Len(settled[c]) > 0
    /\ \A i \in DOMAIN settled[c] : settled[c][i] = "failed"

C6_IsolateAndContinue ==
    \A c \in Calls :
        (Done(c) /\ issued[c].detail > 0) =>
            /\ hotels[c].kind = "returned"
            /\ \A i \in DOMAIN settled[c] : settled[c][i] # "pending"
            /\ \A x \in Range(hotels[c].list) : IsHotelRecord(x)

\* C7: whatever the request and the upstream answers, searchHotels returns
\* a list and the handler returns a response object; neither throws or
\* rejects to its caller.
C7_NeverThrows ==
    \A c \in Calls :
        /\ hotels[c].kind \in {"none", "returned"}
        /\ Done(c) =>
              /\ response[c] # NoResponse
              /\ response[c].isError \in BOOLEAN
              /\ BeforeSearch(args[c]) = NoResponse => hotels[c].kind = "returned"

\* an exception inside searchHotels came back as a failure element
C7_Witness ==
    \E c \in Calls :
        /\ Done(c)
        /\ hotels[c] = [kind |-> "returned", list |-> <<[error |-> TypeErrorMsg]>>]
        /\ response[c].isError = FALSE

\* C8: the total_requests of every search_hotels response equals the number
\* of upstream requests made for that call, also when calls overlap.
C8_TotalRequestsPerCall ==
    \A c \in Calls :
        (Searched(c) /\ hotels[c].kind = "returned")
            => response[c].total_requests = Total(issued[c])

\* C9: for a search that no other search overlaps, the counter read when
\* searchHotels has returned equals the number of upstream calls the search
\* issued, failed calls included, whatever the counter held before.
C9_CountWithoutOverlap ==
    \A c \in Calls :
        (Searched(c) /\ hotels[c].kind = "returned" /\ ~overlapped[c])
            => response[c].total_requests = Total(issued[c])

\* two searches ran one after the other on the shared client, each reaching
\* the photo calls
C9_Witness ==
    \A c \in Calls :
        /\ Searched(c)
        /\ ~overlapped[c]
        /\ issued[c].photo >= 1
        /\ issued[c].detail >= 2
        /\ response[c].total_requests = Total(issued[c])

\* C10: a search with max_results = k issues hotel-detail requests for at
\* most k + 2 hotels.
C10_DetailRequestsWithinBuffer ==
    \A c \in Calls :
        issued[c].detail <= MaxResultsOf(args[c]) + 2

(***************************************************************************)
(* Properties of the handler's validation (SpecArgs).                      *)
(***************************************************************************)
\* a search_hotels call with arguments
ToolCalled(c) ==
    Done(c) /\ args[c].hasArgs /\ args[c].name = "search_hotels"

\* the ranges the tool declares (inputSchema, README "Parameters")
DestinationDeclared(a) == a.destination.isString /\ ~a.destination.blank
AdultsDeclared(a) ==
    a.adults.isNumber /\ a.adults.value \in ADULTS_MINIMUM..ADULTS_MAXIMUM
ChildrenDeclared(a) ==
    \A i \in DOMAIN a.children : a.children[i] \in 0..CHILD_AGE_MAXIMUM
RoomsDeclared(a) == a.rooms = 0 \/ a.rooms \in 1..ROOMS_MAXIMUM
MaxResultsDeclared(a) == a.max_results = 0 \/ a.max_results \in 1..MAX_RESULTS_MAXIMUM
IsDate(d) == d.isString /\ d.parses
\* check-out is a later calendar date than check-in
StayDeclared(a) ==
    /\ IsDate(a.check_in_date) /\ IsDate(a.check_out_date)
    /\ a.check_out_date.day > a.check_in_date.day
\* check-in is the server's calendar date or a later one
CheckInDeclared(a) ==
    IsDate(a.check_in_date) /\ a.check_in_date.day >= LocalDate(a.clock)

Declared(a) ==
    /\ DestinationDeclared(a) /\ AdultsDeclared(a) /\ ChildrenDeclared(a)
    /\ RoomsDeclared(a) /\ MaxResultsDeclared(a) /\ StayDeclared(a)
    /\ CheckInDeclared(a)

\* C11: every search_hotels call whose arguments violate a declared input
\* constraint (destination, adults 1..30, child ages 0..17, rooms 1..8,
\* max_results 1..10, check-out after check-in, check-in not in the past) is
\* answered with isError = true and without any upstream request.
C11_ViolationsRejected ==
    \A c \in Calls :
        ToolCalled(c) /\ ~Declared(args[c])
            => response[c].isError /\ Total(issued[c]) = 0

\* both dates parse and check-out is not after check-in
OutNotAfterIn(a) ==
    /\ IsDate(a.check_in_date) /\ IsDate(a.check_out_date)
    /\ a.check_out_date.day <= a.check_in_date.day

\* the validation error that names both dates and says "after check-in"
IsStayError(c) ==
    /\ response[c].isError
    /\ response[c].text = "check_out_date: must be after check-in date"
    /\ response[c].values = <<args[c].check_in_date, args[c].check_out_date>>

\* C12 as stated: every search_hotels call whose check_out_date is not after
\* its check_in_date is answered with the validation error that mentions both
\* dates and "after check-in".
C12_StayErrorAlways ==
    \A c \in Calls :
        ToolCalled(c) /\ OutNotAfterIn(args[c]) => IsStayError(c)

\* C12: every search_hotels call that passes the checks made before the
\* comparison of the dates (destination a non-empty string, adults a number,
\* check-in not before the server's local midnight) and whose check_out_date
\* is not after its check_in_date is answered with the validation error that
\* mentions both dates and "after check-in", and no upstream request is made.
C12_StayErrorAfterEarlierChecks ==
    \A c \in Calls :
        /\ ToolCalled(c) /\ OutNotAfterIn(args[c])
        /\ DestinationDeclared(args[c]) /\ args[c].adults.isNumber
        /\ GetTime(args[c].check_in_date) >= Today(args[c].clock)
        => IsStayError(c) /\ Total(issued[c]) = 0

\* a call for a stay of zero nights from today on got the stay error
C12_Witness ==
    \E c \in Calls :
        /\ ToolCalled(c) /\ IsStayError(c)
        /\ args[c].check_out_date = args[c].check_in_date
        /\ GetTime(args[c].check_in_date) >= Today(args[c].clock)

\* C13: a search_hotels call whose check_in_date is the server's calendar
\* date of today is not rejected as being in the past, at every time of day
\* and every timezone offset of the server clock.
C13_TodayIsNotPast ==
    \A c \in Calls :
        /\ ToolCalled(c) /\ DestinationDeclared(args[c]) /\ args[c].adults.isNumber
        /\ IsDate(args[c].check_in_date) /\ args[c].check_out_date.isString
        /\ args[c].check_in_date.day = LocalDate(args[c].clock)
        => response[c].text # "check_in_date: cannot be in the past"
(***************************************************************************)
(* Properties of formatHotelDataEnhanced (SpecFormat).                     *)
(***************************************************************************)
\* formatHotelDataEnhanced returned a HotelRecord
Formatted == formattedHotel # Pending /\ IsHotelRecord(formattedHotel)

NoDuplicates(s) == \A i, j \in DOMAIN s : s[i] = s[j] => i = j

\* the names the payload's facilities are read from hold one name twice
RepeatsFacility(details) == ~NoDuplicates(FacilitiesResult(details))

\* C14: every HotelRecord has a facilities array without duplicate strings
\* and a photos array of at most 5 entries, whatever the detail payload and
\* the photo endpoint's answer.
C14_FacilitiesUniquePhotosAtMostFive ==
    Formatted => /\ NoDuplicates(formattedHotel.facilities)
                 /\ Len(formattedHotel.photos) <= 5

\* a record made of a payload that names a facility twice and of a photo
\* answer of more than five usable entries
C14_Witness ==
    /\ Formatted
    /\ RepeatsFacility(hotelDetails)
    /\ formattedHotel.facilities # <<>>
    /\ photoAnswer = Http("200", Body(TRUE, Array(DistinctPhotos(6))))
    /\ Len(formattedHotel.photos) = 5

\* C15: no URL occurs twice in the photos of a HotelRecord, whether they came
\* from the photo endpoint or from the fallback sources.
C15_PhotosDeduplicated ==
    Formatted => NoDuplicates(formattedHotel.photos)

\* what the photo endpoint yielded
EndpointPhotos == GetHotelPhotos(photoAnswer).val

\* the URLs the payload offers apart from the entries of data.photos after
\* the fourth
OtherSources(details) ==
    {details.main_photo_url}
    \cup Range(PhotoUrls(FirstN(details.photos.items, 4)))
    \cup {details.property_highlight_strip[i].image :
            i \in DOMAIN details.property_highlight_strip}

\* no main photo, no highlight image, six distinct usable embedded entries
SixEmbeddedOnly(details) ==
    /\ details.main_photo_url = ""
    /\ \A i \in DOMAIN details.property_highlight_strip :
          details.property_highlight_strip[i].image = ""
    /\ details.photos = Array(DistinctPhotos(6))

\* C17: the record's photos are the endpoint's whenever it yielded any, and
\* come from the payload exactly when it yielded none; then data.photos gives
\* at most its first 4 entries, and a payload with no main photo, no highlight
\* image and 6 distinct usable embedded entries resolves to exactly those 4.
C17_FallbackIffNoEndpointPhotos ==
    Formatted =>
        /\ EndpointPhotos # <<>> => formattedHotel.photos = EndpointPhotos
        /\ EndpointPhotos = <<>> =>
            /\ formattedHotel.photos = PhotosFromDetails(hotelDetails)
            /\ hotelDetails.photos.isArray =>
                 \A i \in DOMAIN hotelDetails.photos.items :
                    /\ i > 4
                    /\ ~hotelDetails.photos.items[i].null
                    /\ hotelDetails.photos.items[i].object
                    /\ PhotoUrl(hotelDetails.photos.items[i])
                          \in Range(formattedHotel.photos)
                    => PhotoUrl(hotelDetails.photos.items[i])
                          \in OtherSources(hotelDetails)
            /\ SixEmbeddedOnly(hotelDetails) =>
                 formattedHotel.photos = <<"u1", "u2", "u3", "u4">>

\* the payload of six embedded entries was resolved without endpoint photos
C17_Witness ==
    /\ Formatted
    /\ EndpointPhotos = <<>>
    /\ SixEmbeddedOnly(hotelDetails)
    /\ Len(formattedHotel.photos) = 4

\* the photo call failed: error status, network error, or a body that is
\* null, without data, no array, or holds a null entry
PhotoCallFailed(resp) ==
    \/ ~AxiosResolves(resp)
    \/ resp.body.null
    \/ ~resp.body.data.present
    \/ ~resp.body.data.isArray
    \/ \E p \in Range(resp.body.data.items) : p.null

\* a payload with status and data whose fields have the expected types
ValidPayload(details) ==
    /\ ~InvalidHotelDetails(details)
    /\ details.wellFormed
    /\ ~FallbackThrows(details)

C16_SameRequestSameResult ==
    \A c, d \in Calls :
        Searched(c) /\ Searched(d) /\ args[c] = args[d] => hotels[c] = hotels[d]

\* the two callers' searches overlapped and both returned a hotel
C16_Witness ==
    /\ Searched(1) /\ Searched(2)
    /\ args[1] = args[2]
    /\ overlapped[1] /\ overlapped[2]
    /\ Len(hotels[1].list) = 1
    /\ IsHotelRecord(hotels[1].list[1])

\* the ids the listing answer holds, in listing order
ListedIds(c) == HotelIdsOf(answered[c].list.body.data.hotels.items)

\* the candidate positions: the first min(10, n) of the n listed ids
RefC(c) == [i \in 1..Min(10, Len(ListedIds(c))) |-> i]
\* the candidates whose detail fetch succeeded
RefD(c) == SelectSeq(RefC(c), LAMBDA i : settled[c][i] = "ok")
\* the first min(|D|, max_results + 2) of them
RefK(c) == FirstN(RefD(c), MaxResultsOf(args[c]) + 2)
\* the positions in K whose normalization succeeded
RefRecords(c) ==
    SelectSeq([j \in 1..Len(RefK(c)) |-> j], LAMBDA j : normalized[c][j] = "record")
\* the ids of the first max_results of those
RefResult(c) ==
    LET r == FirstN(RefRecords(c), MaxResultsOf(args[c])) IN
    [m \in 1..Len(r) |-> ListedIds(c)[RefK(c)[r[m]]]]

\* a search that got its listing and returned HotelRecords only
SearchSucceeded(c) ==
    /\ Searched(c)
    /\ issued[c].detail > 0
    /\ hotels[c].kind = "returned"
    /\ \A m \in DOMAIN hotels[c].list : IsHotelRecord(hotels[c].list[m])

\* C19: the result of a successful search is that of the reference: of the
\* first min(10, n) listed ids, those whose detail fetch succeeded, cut to
\* the first max_results + 2, and of these the first max_results whose
\* normalization succeeded, in that order.
C19_ResultIsReference ==
    \A c \in Calls :
        SearchSucceeded(c) =>
            /\ Len(settled[c]) = Len(RefC(c))
            /\ Len(normalized[c]) = Len(RefK(c))
            /\ [m \in DOMAIN hotels[c].list |-> hotels[c].list[m].hotel_id]
                  = RefResult(c)

\* five candidates, every detail fetch and normalization succeeded,
\* max_results = 3: the records of the first three candidates
C19_Witness ==
    \E c \in Calls :
        /\ SearchSucceeded(c)
        /\ MaxResultsOf(args[c]) = 3
        /\ ListedIds(c) = <<1, 2, 3, 4, 5>>
        /\ \A i \in 1..5 : settled[c][i] = "ok"
        /\ \A j \in DOMAIN normalized[c] : normalized[c][j] = "record"
        /\ Len(hotels[c].list) = 3
        /\ \A m \in 1..3 : hotels[c].list[m].hotel_id = m

\* C20: the phases of a search are ordered: the listing call is issued only
\* after the destination call returned a non-empty list, the detail calls
\* only after the listing call returned, the photo calls only after every
\* detail call settled, and the search returns only after every dispatched
\* normalization settled, even when max_results records are already there.
C20_PhasesInOrder ==
    \A c \in Calls :
        /\ issued[c].list > 0 =>
             /\ answered[c].dest # NoResponse
             /\ AxiosResolves(answered[c].dest)
             /\ Len(BodyData(answered[c].dest.body).items) > 0
        /\ issued[c].detail > 0 =>
             /\ answered[c].list # NoResponse
             /\ AxiosResolves(answered[c].list)
        /\ issued[c].photo > 0 =>
             \A i \in DOMAIN settled[c] : settled[c][i] # "pending"
        /\ Done(c) =>
             \A j \in DOMAIN normalized[c] : normalized[c][j] # "pending"
        /\ hotels[c].kind # "none" => Done(c)

\* a search for one hotel returned after two normalizations had succeeded
C20_Witness ==
    \E c \in Calls :
        /\ Searched(c)
        /\ MaxResultsOf(args[c]) = 1
        /\ Len(hotels[c].list) = 1
        /\ Cardinality({j \in DOMAIN normalized[c] : normalized[c][j] = "record"}) >= 2
(***************************************************************************)
(* Termination, retries, the request budget and rejected calls.            *)
(***************************************************************************)
\* what searchHotels may return: an empty list, a list of records, or a
\* single failure element
IsTerminalList(list) ==
    \/ list = <<>>
    \/ \A i \in DOMAIN list : IsHotelRecord(list[i])
    \/ Len(list) = 1 /\ IsFailure(list[1])

Terminated(c) == Done(c) /\ (Searched(c) => IsTerminalList(hotels[c].list))

\* C21: provided every issued upstream call eventually settles, every search
\* invocation eventually reaches a terminal state and returns (an empty list,
\* a list of records, or a single failure element); it never stays forever in
\* an intermediate phase.
C21_SearchTerminates == \A c \in Calls : Searching(c) ~> Terminated(c)

\* a search went through all four phases and returned records
C21_Witness ==
    \E c \in Calls :
        /\ Searched(c)
        /\ hotels[c].kind = "returned"
        /\ issued[c].photo >= 1
        /\ hotels[c].list # <<>>
        /\ IsHotelRecord(hotels[c].list[1])
        /\ overlapped[c]

\* the fetches and normalizations of call c that have ended stay as they ended
KeepsSettled(c) ==
    /\ \A i \in DOMAIN settled[c] :
         settled[c][i] # "pending"
            => i \in DOMAIN settled'[c] /\ settled'[c][i] = settled[c][i]
    /\ \A j \in DOMAIN normalized[c] :
         normalized[c][j] # "pending"
            => j \in DOMAIN normalized'[c] /\ normalized'[c][j] = normalized[c][j]

\* C22: nothing is retried: in one search there is at most one destination
\* call, at most one listing call, at most one detail call per capped
\* candidate position and at most one photo call per kept hotel, whatever the
\* outcomes; a hotel whose detail fetch or normalization failed is never
\* fetched or normalized again.
C22_NothingRetried ==
    [][\A c \in Calls :
          /\ issued'[c].dest <= 1
          /\ issued'[c].list <= 1
          /\ issued'[c].detail <= Min(MAX_CANDIDATES, listed'[c])
          /\ issued'[c].photo <= Len(normalized'[c])
          /\ Searching(c) => KeepsSettled(c)]_vars

\* a search ended after a detail fetch had failed and a normalization had
\* failed, with other hotels fetched and normalized
C22_Witness ==
    \E c \in Calls :
        /\ Searched(c)
        /\ \E i \in DOMAIN settled[c] : settled[c][i] = "failed"
        /\ \E i \in DOMAIN settled[c] : settled[c][i] = "ok"
        /\ \E j \in DOMAIN normalized[c] : normalized[c][j] = "failure"
        /\ \E j \in DOMAIN normalized[c] : normalized[c][j] = "record"
        /\ issued[c].photo >= 1

\* the kept hotels of call c whose payload has a success indicator and a body
KeptWithData(c) ==
    {j \in DOMAIN validHotelDetails[c] : ~InvalidHotelDetails(validHotelDetails[c][j][2])}

SuccessfulFetches(c) == {i \in DOMAIN settled[c] : settled[c][i] = "ok"}

\* C29: for every search with n listed hotel ids and max_results = k, the
\* total number of upstream calls is at most
\* 2 + min(10, n) + min(k + 2, min(10, n)), hence at most 22 for k <= 10;
\* photo calls are issued only for kept hotels whose detail payload has a
\* success indicator and a data body, so there are never more photo calls
\* than successful detail fetches.
C29_RequestBudget ==
    \A c \in Calls :
        LET k == MaxResultsOf(args[c])
            candidates == Min(MAX_CANDIDATES, listed[c])
        IN
        /\ Total(issued[c]) <= 2 + candidates + Min(k + BUFFER, candidates)
        /\ k <= MAX_RESULTS_MAXIMUM => Total(issued[c]) <= 22
        /\ issued[c].photo <= Cardinality(SuccessfulFetches(c))
        /\ pc[c] = "format" => issued[c].photo = Cardinality(KeptWithData(c))

\* four hotels listed and fetched well with max_results = 1: three are kept,
\* one of them without a data body, and two photo calls are issued
C29_Witness ==
    \E c \in Calls :
        /\ pc[c] = "format"
        /\ listed[c] = 4
        /\ args[c].max_results = 1
        /\ Cardinality(SuccessfulFetches(c)) = 4
        /\ Len(validHotelDetails[c]) = 3
        /\ issued[c].photo = 2
        /\ Total(issued[c]) = 8

\* call c is answered in this step without a search having been started
RejectedStep(c) ==
    /\ ~Searching(c)
    /\ pc'[c] = "done"
    /\ <<args[c], response[c], hotels[c]>> # <<args'[c], response'[c], hotels'[c]>>

\* C30: a tool call that is rejected before the search starts (missing
\* arguments, a validation error, or an unknown tool name) leaves the
\* client's request counter unchanged and issues no upstream call: the counter
\* still holds the value left by the previous search.
C30_RejectedCallKeepsCounter ==
    [][\A c \in Calls :
          RejectedStep(c)
             => /\ requestCount' = requestCount
                /\ issued'[c] = NoIssued
                /\ response'[c].isError]_vars

\* a search made four requests, and the next call was rejected for its
\* arguments: the counter still is four
C30_Witness ==
    \E c \in Calls :
        /\ Done(c)
        /\ BeforeSearch(args[c]) # NoResponse
        /\ args[c].hasArgs /\ args[c].name = "search_hotels"
        /\ response[c] = BeforeSearch(args[c])
        /\ issued[c] = NoIssued
        /\ requestCount = 4

(***************************************************************************)
(* The destination resolver and the hotel lister.                          *)
(***************************************************************************)
\* the destination answers that calls have taken
DestinationAnswers == {answered[c].dest : c \in Calls} \ {NoResponse}

\* a body the resolver cannot read a destination list from: null, without a
\* success indicator, or without data
UnreadableBody(resp) ==
    AxiosResolves(resp)
        /\ (resp.status # "200" \/ ~BodyStatus(resp.body) \/ ~BodyData(resp.body).present)

EmptyDestinations(resp) ==
    /\ AxiosResolves(resp) /\ resp.status = "200" /\ BodyStatus(resp.body)
    /\ BodyData(resp.body).isArray /\ BodyData(resp.body).items = <<>>

FailsWithStatus(result, resp) == IsFailure(result) /\ result.error.status = resp.status

\* C23 as stated: the resolver returns a failure value with a message when the
\* upstream answers non-2xx (the message has the status), when the body is
\* malformed, or when the destination list is empty; it returns a destination
\* list only when that list is non-empty.
C23_FailureUnlessNonEmptyList ==
    \A resp \in DestinationAnswers :
        LET result == SearchDestinationsByQuery(resp) IN
        /\ HttpError(resp) => FailsWithStatus(result, resp)
        /\ UnreadableBody(resp) => IsFailure(result)
        /\ EmptyDestinations(resp) => IsFailure(result)
        /\ ~IsFailure(result)
              => result.destinations.isArray /\ result.destinations.items # <<>>

\* C23 (amended): the resolver returns a failure value with a message when the
\* upstream answers non-2xx (the message has the status), when the call fails
\* without a response, and when the body is null or lacks the success
\* indicator or the data field; in every other case it returns the body's data
\* as the destination list, be it empty or no list at all.
C23_FailureUnlessDataPresent ==
    \A resp \in DestinationAnswers :
        LET result == SearchDestinationsByQuery(resp) IN
        /\ HttpError(resp) => FailsWithStatus(result, resp)
        /\ IsFailure(result) <=> (~AxiosResolves(resp) \/ UnreadableBody(resp))
        /\ IsFailure(result) => result.error.text # ""
        /\ ~IsFailure(result) => result.destinations = resp.body.data

\* the upstream answered 200 with an empty destination list, and the search
\* returned an empty list
C23_Witness ==
    \E c \in Calls :
        /\ Searched(c)
        /\ EmptyDestinations(answered[c].dest)
        /\ hotels[c].kind = "returned"
        /\ hotels[c].list = <<>>

(***************************************************************************)
(* The fields of a HotelRecord.                                            *)
(***************************************************************************)
\* the categories of the record's rating scores
ScoreCategories == {formattedHotel.rating_scores[i].category :
                        i \in DOMAIN formattedHotel.rating_scores}

\* C24: in every HotelRecord, rating_scores has at most three entries with
\* categories among breakfast, wifi, overall, and each category's entry is
\* there only if its source score is in the detail payload: no breakfast entry
\* without a breakfast score block, no wifi entry without a wifi score block,
\* no overall entry without an overall score.
C24_ScoresOnlyWithSource ==
    Formatted =>
        /\ Len(formattedHotel.rating_scores) <= 3
        /\ ScoreCategories \subseteq {"breakfast", "wifi", "overall"}
        /\ "breakfast" \in ScoreCategories
              => Get(hotelDetails, "breakfast_review_score", NoScoreBlock).present
        /\ "wifi" \in ScoreCategories
              => Get(hotelDetails, "wifi_review_score", NoScoreBlock).present
        /\ "overall" \in ScoreCategories
              => (Get(hotelDetails, "review_score", 0) # 0 \/ Get(hotelDetails, "rating", 0) # 0)

\* the entries among the first three of a list that are objects with content
YieldOf(list, guest) ==
    IF ~list.isArray THEN <<>>
    ELSE LET usable(review) ==
               /\ ~review.null
               /\ review.object
               /\ (IF guest THEN GuestReviewData(review) ELSE ListReviewData(review)).content # ""
             kept == SelectSeq(FirstN(list.items, 3), usable)
         IN [i \in 1..Len(kept) |->
               IF guest THEN GuestReviewData(kept[i]) ELSE ListReviewData(kept[i])]

GenericList(data) ==
    IF Get(data, "review_list", Absent).present THEN data.review_list
    ELSE Get(data, "reviews", Absent)

\* C25: featured reviews come from the first non-empty source in a fixed
\* priority: the guest-reviews list (first 3 entries, only those with
\* non-empty content); the generic review list only if guest-reviews yielded
\* none; a single synthetic review with author "Booking.com" only if both
\* yielded none and an overall rating word exists.  Reviews of two sources are
\* never mixed and the result has at most 3 entries.
C25_FirstNonEmptySource ==
    Formatted =>
        LET fromGuests == YieldOf(Get(hotelDetails, "guest_reviews", Absent), TRUE)
            fromList == YieldOf(GenericList(hotelDetails), FALSE)
            reviewWord == Get(hotelDetails, "review_score_word", "")
        IN
        /\ Len(formattedHotel.featured_review) <= 3
        /\ formattedHotel.featured_review =
              IF fromGuests # <<>> THEN fromGuests
              ELSE IF fromList # <<>> THEN fromList
              ELSE IF reviewWord # "" THEN <<FeaturedReview("Booking.com", reviewWord)>>
              ELSE <<>>

\* how many parameters of the booking URL's query string have the key
CountKey(key) ==
    Cardinality({i \in DOMAIN formattedHotel.url_booking_hotel.query :
                    formattedHotel.url_booking_hotel.query[i][1] = key})

\* the query string has the key once, with the number as its value
HasOnce(key, number) ==
    /\ CountKey(key) = 1
    /\ \E i \in DOMAIN formattedHotel.url_booking_hotel.query :
         formattedHotel.url_booking_hotel.query[i] = <<key, ToString(number)>>

\* C26: the deep booking URL of a HotelRecord is the canonical URL followed by
\* a query string; when the request has one or more children it carries
\* group_children and req_children, both the number of children, and exactly
\* one req_age parameter whose value is the last child's age; when the request
\* has no children it carries none of group_children, req_children, req_age.
C26_BookingUrlChildren ==
    Formatted =>
        LET children == paramsGiven.children IN
        /\ formattedHotel.url_booking_hotel.base = formattedHotel.url
        /\ formattedHotel.url_booking_hotel.query # <<>>
        /\ IF Len(children) > 0
           THEN /\ HasOnce("group_children", Len(children))
                /\ HasOnce("req_children", Len(children))
                /\ HasOnce("req_age", children[Len(children)])
           ELSE /\ CountKey("group_children") = 0
                /\ CountKey("req_children") = 0
                /\ CountKey("req_age") = 0

\* a record made for a request with two children of different ages
C26_Witness ==
    /\ Formatted
    /\ paramsGiven.children = <<5, CHILD_AGE_MAXIMUM>>
    /\ HasOnce("req_age", CHILD_AGE_MAXIMUM)

\* the payload's price breakdown
Breakdown == Get(hotelDetails, "product_price_breakdown", NoPriceBreakdown)

\* every room has the price, price per night and currency of the breakdown
RoomsSharePrice ==
    \A i \in DOMAIN formattedHotel.rooms :
        LET room == formattedHotel.rooms[i] IN
        /\ room.price = Or(Breakdown.gross_amount.amount_rounded,
                           Breakdown.gross_amount.amount_unrounded)
        /\ room.price_per_night = Or(Breakdown.gross_amount_per_night.amount_rounded,
                                     Breakdown.gross_amount_per_night.amount_unrounded)
        /\ room.currency = Or(Breakdown.gross_amount.currency, "USD")
        /\ room.total_days = formattedHotel.rooms[1].total_days

\* C27 as stated: within one HotelRecord every RoomRecord carries the same
\* price, price_per_night, currency and nights, all taken from the payload's
\* single price-breakdown block; nights equals the breakdown's stay count when
\* present and 1 otherwise, so nights >= 1 whenever the stay count is absent
\* or a non-negative integer.
C27_NightsAreStayCount ==
    Formatted =>
        /\ RoomsSharePrice
        /\ Len(formattedHotel.rooms) = Len(hotelDetails.rooms)
        /\ \A i \in DOMAIN formattedHotel.rooms :
             /\ formattedHotel.rooms[i].total_days =
                   IF Breakdown.nr_stays.present THEN Breakdown.nr_stays.value ELSE 1
             /\ (~Breakdown.nr_stays.present \/ Breakdown.nr_stays.value >= 0)
                   => formattedHotel.rooms[i].total_days >= 1

\* C27 (amended): every RoomRecord carries the same price, price_per_night,
\* currency and nights, all taken from the payload's single price-breakdown
\* block; nights equals the breakdown's stay count when that is present and
\* not zero, and 1 otherwise, so nights >= 1 whenever the stay count is absent
\* or a non-negative integer.
C27_NightsAreStayCountOrOne ==
    Formatted =>
        /\ RoomsSharePrice
        /\ Len(formattedHotel.rooms) = Len(hotelDetails.rooms)
        /\ \A i \in DOMAIN formattedHotel.rooms :
             /\ formattedHotel.rooms[i].total_days =
                   IF Breakdown.nr_stays.present /\ Breakdown.nr_stays.value # 0
                   THEN Breakdown.nr_stays.value ELSE 1
             /\ (~Breakdown.nr_stays.present \/ Breakdown.nr_stays.value >= 0)
                   => formattedHotel.rooms[i].total_days >= 1

\* a record with three rooms made of a payload whose stay count is zero
C27_Witness ==
    /\ Formatted
    /\ Len(formattedHotel.rooms) = 3
    /\ Breakdown.nr_stays = Stays(0)
    /\ Breakdown.gross_amount.amount_rounded # ""
    /\ \A i \in DOMAIN formattedHotel.rooms : formattedHotel.rooms[i].total_days = 1

\* the hotel ids of the listing answer of call c, in its order
ListedHotelIds(c) ==
    LET items == answered[c].list.body.data.hotels.items
        withId == SelectSeq(items, LAMBDA hotel : hotel.hasId)
    IN [i \in 1..Len(withId) |-> withId[i].hotel_id]

\* C28: the hotel lister sends exactly one child-age parameter per child,
\* numbered from 1 in the order of the request's child ages, with the children
\* count equal to the number of ages; and it returns the hotel ids of the
\* response's hotel list in response order with every null or undefined id
\* removed and nothing else removed or reordered.
C28_ListerParamsAndIds ==
    \A c \in Calls :
        /\ issued[c].list = 1 =>
             LET children == args[c].children IN
             /\ listingParams[c].children_qty = ToString(Len(children))
             /\ DOMAIN listingParams[c].children_age = 1..Len(children)
             /\ \A i \in 1..Len(children) :
                  listingParams[c].children_age[i] = ToString(children[i])
        /\ pc[c] = "details" =>
             /\ listed[c] = Len(ListedHotelIds(c))
             /\ hotelIdsToProcess[c] = FirstN(ListedHotelIds(c), MAX_CANDIDATES)

\* a request with two children whose listing has an entry without id between
\* two hotels
C28_Witness ==
    \E c \in Calls :
        /\ pc[c] = "details"
        /\ args[c].children = <<0, CHILD_AGE_MAXIMUM>>
        /\ listingParams[c].children_age = <<"0", "17">>
        /\ answered[c].list = ListingWithHole
        /\ hotelIdsToProcess[c] = <<1, 3>>

====
